---- MODULE Spec2Model ----
(***************************************************************************)
(* A model of j.py, a journal kept as plain text files in one directory.   *)
(*                                                                         *)
(* Text is a sequence of atoms.  An atom stands for one character ("\n",   *)
(* " ", "@", "a", "A", "-", ".") or for one indivisible run of characters  *)
(* ("immortal", "nowrap", a 15-character time stamp).  str.strip,          *)
(* str.split, readlines, "".join, startswith and the substring test are    *)
(* computed on these sequences as Python computes them on strings.         *)
(***************************************************************************)
EXTENDS Integers, Sequences, FiniteSets, TLC

VARIABLES
    pc,         \* which operation is running, and where it stands
    path,       \* Entry.__init__: the name of the file being parsed
    content,    \* Entry.__init__: what open(path) reads
    meta_only,  \* Entry.__init__: the meta_only argument
    parsed,     \* Entry.__init__: the Entry made, or the exception raised
    directory,  \* the journal directory, in the order os.scandir yields it
    filters,    \* _collect_entries: the FilterSettings
    bodies,     \* _collect_entries: the bodies argument
    now,        \* what TimeFilter.now() returns
    idx,        \* _collect_entries: the directory entry the loop is at
    entries,    \* _collect_entries: the list the loop appends to
    returned,   \* _collect_entries: the list returned
    raised,     \* _collect_entries: the exception that left it
    edited,     \* edit_entry: what "^N" came to
    arg,        \* TimeFilter.from_arg: the time filter expression
    time_filter, \* TimeFilter.from_arg: the filter made, or the exception
    t_parsed,   \* what TimeFilter.now() returned when from_arg ran
    probe,      \* TimeFilter.matches: the entry time asked and the answer
    ticks,      \* how often the clock has moved on
    input,      \* format_body: the body text
    col,        \* format_body: the wrap column
    out_lines,  \* format_body: the lines returned, or the exception
    shown,      \* Entry.format: the entry
    wrap_col,   \* Entry.format: the wrap column
    rec,        \* Entry.format: the text returned, or the exception
    tmp_files,  \* the files of the temporary directory: name to content
    journal_files, \* the files of the journal directory: name to content
    existing,   \* _invoke_editor: the existing argument
    paths,      \* _invoke_editor: the list of paths
    editor_args, \* the paths the editor was last run on
    checked,    \* the "[!]", "[E]" and "[N]" lines since the editor ran
    problem_paths, \* _invoke_editor: the paths that failed, with reasons
    moves,      \* the paths _move_entry_in has moved, in order
    cycles      \* how often the editor has been run

parseVars == <<path, content, meta_only, parsed>>
collectVars ==
    <<directory, filters, bodies, idx, entries, returned, raised, edited>>
timeVars == <<arg, time_filter, t_parsed, probe, ticks>>
bodyVars == <<input, col, out_lines>>
formatVars == <<shown, wrap_col, rec>>
renderVars == <<bodyVars, formatVars>>
editVars ==
    <<tmp_files, journal_files, existing, paths, editor_args, checked,
      problem_paths, moves, cycles>>
vars == <<pc, parseVars, collectVars, timeVars, renderVars, editVars, now>>

(***************************************************************************)
(* Bounds                                                                  *)
(***************************************************************************)
\* Longest file content, in atoms, that the parser is run on.
MaxLen == 6

(***************************************************************************)
(* Python values                                                           *)
(***************************************************************************)
None == <<>>
Some(x) == <<x>>

\* Every sequence over S of length at most n.
SeqsUpTo(S, n) == UNION {[1..k -> S] : k \in 0..n}

(***************************************************************************)
(* str methods                                                             *)
(***************************************************************************)
IsSpace(c) == c \in {" ", "\n"}

RECURSIVE LStrip(_)
LStrip(s) ==
    IF s # <<>> /\ IsSpace(Head(s)) THEN LStrip(Tail(s)) ELSE s

RECURSIVE RStrip(_)
RStrip(s) ==
    IF s # <<>> /\ IsSpace(s[Len(s)])
    THEN RStrip(SubSeq(s, 1, Len(s) - 1))
    ELSE s

\* str.strip()
Strip(s) == RStrip(LStrip(s))

\* Index of the first sep in s at or after position i, 0 when there is none.
RECURSIVE FindFrom(_, _, _)
FindFrom(s, sep, i) ==
    IF i > Len(s) THEN 0
    ELSE IF s[i] = sep THEN i
    ELSE FindFrom(s, sep, i + 1)

\* str.split(sep) for a one-character sep: adjacent separators give empty
\* pieces, and the empty string gives one empty piece.
RECURSIVE Split(_, _)
Split(s, sep) ==
    LET i == FindFrom(s, sep, 1) IN
    IF i = 0 THEN <<s>>
    ELSE <<SubSeq(s, 1, i - 1)>> \o Split(SubSeq(s, i + 1, Len(s)), sep)

\* A reading that drops the line ends, as str.splitlines() does.
RECURSIVE ReadLinesNoEnds(_)
ReadLinesNoEnds(s) ==
    LET i == FindFrom(s, "\n", 1) IN
    IF s = <<>> THEN <<>>
    ELSE IF i = 0 THEN <<s>>
    ELSE <<SubSeq(s, 1, i - 1)>> \o ReadLinesNoEnds(SubSeq(s, i + 1, Len(s)))

\* fh.readlines(): the lines of the text, each with the "\n" that ends it;
\* the last line has none when the text does not end with one.
RECURSIVE ReadLines(_)
ReadLines(s) ==
    LET i == FindFrom(s, "\n", 1) IN
    IF s = <<>> THEN <<>>
    ELSE IF i = 0 THEN <<s>>
    ELSE <<SubSeq(s, 1, i)>> \o ReadLines(SubSeq(s, i + 1, Len(s)))

\* "".join(lines)
RECURSIVE Join(_)
Join(lines) ==
    IF lines = <<>> THEN <<>> ELSE Head(lines) \o Join(Tail(lines))

\* str.startswith(prefix)
StartsWith(s, prefix) ==
    Len(s) >= Len(prefix) /\ SubSeq(s, 1, Len(prefix)) = prefix

\* The runs of decimal digits that occur in an input.
DigitRuns == {"0", "1", "2", "3", "12", "30", "2016", "2017", "3000"}

\* int() of a run of digits.
DigitValue(a) ==
    CASE a = "0" -> 0
      [] a = "1" -> 1
      [] a = "2" -> 2
      [] a = "3" -> 3
      [] a = "12" -> 12
      [] a = "30" -> 30
      [] a = "2016" -> 2016
      [] a = "2017" -> 2017
      [] a = "3000" -> 3000

\* The number of digits of a run.
DigitWidth(a) ==
    CASE a \in {"0", "1", "2", "3"} -> 1
      [] a \in {"12", "30"} -> 2
      [] OTHER -> 4

Units == {"d", "w", "m", "y", "h", "M"}

\* int(s): white space around the number is ignored, a sign may precede the
\* digits; None stands for the ValueError.
IntOf(s) ==
    LET t == Strip(s) IN
    IF Len(t) = 1 /\ t[1] \in DigitRuns THEN Some(DigitValue(t[1]))
    ELSE IF Len(t) = 2 /\ t[1] = "-" /\ t[2] \in DigitRuns
         THEN Some(0 - DigitValue(t[2]))
    ELSE None

(***************************************************************************)
(* datetime                                                                *)
(* An instant is [day, sec]: the proleptic Gregorian ordinal of its date   *)
(* (0001-01-01 is day 1) and the second of that day.  Microseconds are     *)
(* left out: file stamps and time expressions carry none.                  *)
(***************************************************************************)
IsLeap(y) == y % 4 = 0 /\ (y % 100 # 0 \/ y % 400 = 0)

DaysBeforeYear(y) ==
    (y - 1) * 365 + ((y - 1) \div 4) - ((y - 1) \div 100) + ((y - 1) \div 400)

DaysInMonth(y, m) ==
    CASE m \in {4, 6, 9, 11} -> 30
      [] m = 2 -> IF IsLeap(y) THEN 29 ELSE 28
      [] OTHER -> 31

RECURSIVE DaysBeforeMonth(_, _)
DaysBeforeMonth(y, m) ==
    IF m <= 1 THEN 0 ELSE DaysBeforeMonth(y, m - 1) + DaysInMonth(y, m - 1)

\* datetime(y, m, d, H, M, S)
DateTime(y, m, d, H, M, S) ==
    [day |-> DaysBeforeYear(y) + DaysBeforeMonth(y, m) + d,
     sec |-> (H * 60 + M) * 60 + S]

\* datetime.min and datetime.max
DatetimeMin == DateTime(1, 1, 1, 0, 0, 0)
DatetimeMax == DateTime(9999, 12, 31, 23, 59, 59)

\* a <= b on datetimes
TimeLE(a, b) == a.day < b.day \/ (a.day = b.day /\ a.sec <= b.sec)

(***************************************************************************)
(* File names.  A stamp atom is a whole "%Y%m%d_%H%M%S" string; every      *)
(* other atom is a single character that no such string begins with.       *)
(***************************************************************************)
Stamps ==
    {"00010101_000000", "20160101_000000", "20170101_120000",
     "20170103_120000", "99991231_235959"}

\* The fields datetime.strptime reads from a stamp atom.
StampTime(s) ==
    CASE s = "00010101_000000" -> DateTime(1, 1, 1, 0, 0, 0)
      [] s = "20160101_000000" -> DateTime(2016, 1, 1, 0, 0, 0)
      [] s = "20170101_120000" -> DateTime(2017, 1, 1, 12, 0, 0)
      [] s = "20170103_120000" -> DateTime(2017, 1, 3, 12, 0, 0)
      [] s = "99991231_235959" -> DateTime(9999, 12, 31, 23, 59, 59)

\* datetime.strptime(tstr, TIME_FORMAT): the instant, or None for the
\* ValueError raised when tstr is not exactly one time stamp.
StrpTimeFormat(tstr) ==
    IF Len(tstr) = 1 /\ tstr[1] \in Stamps
    THEN Some(StampTime(tstr[1]))
    ELSE None

(***************************************************************************)
(* Entry                                                                   *)
(***************************************************************************)
\* What Entry(path, meta_only) leaves behind: an Entry object, or the
\* exception that left __init__ (no object is made then).
Raised(kind, msg) ==
    [kind |-> kind, msg |-> msg, path |-> None, title |-> None,
     time |-> None, body |-> None, tags |-> {}, immortal |-> FALSE,
     wrap |-> TRUE]

MkEntry(p, title, time, body, attrs) ==
    [kind |-> "Entry", msg |-> None, path |-> p, title |-> title,
     time |-> time, body |-> body, tags |-> attrs.tags,
     immortal |-> attrs.immortal, wrap |-> attrs.wrap]

\* The attributes an Entry starts with (Entry.__init__).
NoAttrs == [tags |-> {}, immortal |-> FALSE, wrap |-> TRUE, bad |-> None]

\* An attribute loop that passes over the tokens it does not know.
RECURSIVE ParseAttrsLenient(_, _)
ParseAttrsLenient(attrs, acc) ==
    IF attrs = <<>> THEN acc
    ELSE LET attr == Head(attrs) IN
         IF StartsWith(attr, <<"@">>)
         THEN ParseAttrsLenient(Tail(attrs),
                                [acc EXCEPT !.tags = @ \cup {Tail(attr)}])
         ELSE IF attr = <<"immortal">>
         THEN ParseAttrsLenient(Tail(attrs), [acc EXCEPT !.immortal = TRUE])
         ELSE IF attr = <<"nowrap">>
         THEN ParseAttrsLenient(Tail(attrs), [acc EXCEPT !.wrap = FALSE])
         ELSE ParseAttrsLenient(Tail(attrs), acc)

\* The loop over the attribute line's tokens; bad is the token that made
\* it raise, and the loop stops there.
RECURSIVE ParseAttrs(_, _)
ParseAttrs(attrs, acc) ==
    IF attrs = <<>> THEN acc
    ELSE LET attr == Head(attrs) IN
         IF StartsWith(attr, <<"@">>)
         THEN ParseAttrs(Tail(attrs),
                         [acc EXCEPT !.tags = @ \cup {Tail(attr)}])
         ELSE IF attr = <<"immortal">>
         THEN ParseAttrs(Tail(attrs), [acc EXCEPT !.immortal = TRUE])
         ELSE IF attr = <<"nowrap">>
         THEN ParseAttrs(Tail(attrs), [acc EXCEPT !.wrap = FALSE])
         ELSE [acc EXCEPT !.bad = Some(attr)]

\* os.path.basename(self.path).split("-")[0]
TStr(name) == Split(name, "-")[1]

\* Entry.parse from the attribute line on: title and time are set, lines
\* holds at least two lines, attr_line is the second, stripped, and attrs
\* is what the loop over its tokens made of it.
ParseHeader(name, lines, metaOnly, title, time, attr_line, attrs) ==
    IF attrs.bad # None
    THEN Raised("ParseError", <<"unknown attribute", " ">> \o attrs.bad[1])
    ELSE IF attr_line # <<>> /\ Len(lines) = 2
    THEN MkEntry(name, title, time, None, attrs)
    ELSE IF attr_line # <<>> /\ Strip(lines[3]) # <<>>
    THEN Raised("ParseError", <<"expected blank line after header">>)
    ELSE IF metaOnly THEN MkEntry(name, title, time, None, attrs)
    ELSE MkEntry(name, title, time,
                 \* the lines the iterator still holds
                 Some(Join(SubSeq(lines, IF attr_line # <<>> THEN 4 ELSE 3,
                                  Len(lines)))),
                 attrs)

\* Entry.parse once the time is read from the name; lines is
\* fh.readlines().
ParseLines(name, lines, metaOnly, time) ==
    IF Len(lines) = 0
    THEN Raised("ParseError", <<"unexpected end of file">>)
    ELSE IF Strip(lines[1]) = <<>>
    THEN Raised("ParseError", <<"whitespace title">>)
    ELSE IF Len(lines) = 1
    THEN MkEntry(name, Strip(lines[1]), time, None, NoAttrs)
    ELSE ParseHeader(name, lines, metaOnly, Strip(lines[1]), time,
                     Strip(lines[2]),
                     IF Strip(lines[2]) # <<>>
                     THEN ParseAttrs(Split(Strip(lines[2]), " "), NoAttrs)
                     ELSE NoAttrs)

\* strptime's ValueError leaves parse before the file is opened.
ParseTimed(name, text, metaOnly, time) ==
    IF time = None
    THEN Raised("ValueError", <<"time data does not match format">>)
    ELSE ParseLines(name, ReadLines(text), metaOnly, time[1])

\* Entry.__init__ and Entry.parse
Parse(name, text, metaOnly) ==
    ParseTimed(name, text, metaOnly, StrpTimeFormat(TStr(name)))

(***************************************************************************)
(* The variables of an operation that is not running keep these values.    *)
(***************************************************************************)
ParseIdle ==
    path = <<>> /\ content = <<>> /\ meta_only = FALSE /\ parsed = None

CollectIdle ==
    /\ directory = <<>>
    /\ filters = None
    /\ bodies = TRUE
    /\ idx = 0
    /\ entries = <<>>
    /\ returned = None
    /\ raised = None
    /\ edited = None

TimeIdle ==
    arg = <<>> /\ time_filter = None /\ t_parsed = None /\ probe = None /\ ticks = 0

RenderIdle ==
    /\ input = <<>> /\ col = 0 /\ out_lines = None
    /\ shown = None /\ wrap_col = 0 /\ rec = None

EditIdle ==
    /\ tmp_files = <<>> /\ journal_files = <<>> /\ existing = FALSE
    /\ paths = <<>> /\ editor_args = <<>> /\ checked = <<>>
    /\ problem_paths = <<>> /\ moves = <<>> /\ cycles = 0

(***************************************************************************)
(* The parser on its own: one file, read once.                             *)
(***************************************************************************)
\* The characters of the files the parser is run on.
ParseAlphabet == {"\n", " ", "@", "a", "immortal", "nowrap"}

\* A well-formed name and one that holds no time stamp.
ParseNames == {<<"20170101_120000", "-", "a">>, <<"a", "-", "a">>}

InitParse ==
    /\ pc = "parse"
    /\ path \in ParseNames
    /\ content \in SeqsUpTo(ParseAlphabet, MaxLen)
    /\ meta_only \in BOOLEAN
    /\ parsed = None
    /\ CollectIdle
    /\ TimeIdle
    /\ RenderIdle
    /\ EditIdle
    /\ now = DateTime(2017, 1, 2, 0, 0, 0)

\* Entry(path, meta_only)
EntryInit ==
    /\ pc = "parse"
    /\ parsed' = Some(Parse(path, content, meta_only))
    /\ pc' = "parsed"
    /\ UNCHANGED <<path, content, meta_only, collectVars, timeVars,
                   renderVars, now, editVars>>

NextParse == EntryInit

SpecParse == InitParse /\ [][NextParse]_vars

(***************************************************************************)
(* Claims about the parser (checked under SpecParse)                       *)
(***************************************************************************)
\* The outcome of the parse, once Entry(path, meta_only) has run.
Outcome == parsed[1]

\* The name begins with a time stamp followed by the separator "-".
WellFormedName(name) ==
    Len(name) >= 2 /\ name[1] \in Stamps /\ name[2] = "-"

\* The text has a first line, and nothing but blanks stands before the
\* end of that line.
FirstLineBlank(text) ==
    /\ text # <<>>
    /\ \A i \in 1..Len(text) :
          (\A j \in 1..(i - 1) : text[j] # "\n") => IsSpace(text[i])

\* The text has a second line that is not blank: the attribute line.
HasAttrLine(text) ==
    Len(ReadLines(text)) >= 2 /\ Strip(ReadLines(text)[2]) # <<>>

\* The space-separated tokens of the attribute line.
AttrTokens(text) == Split(Strip(ReadLines(text)[2]), " ")

IsTagOrFlag(tok) ==
    \/ (tok # <<>> /\ tok[1] = "@")
    \/ tok = <<"immortal">>
    \/ tok = <<"nowrap">>

\* Where the attribute line's offending tokens stand.
Offending(text) ==
    {i \in 1..Len(AttrTokens(text)) : ~IsTagOrFlag(AttrTokens(text)[i])}

FirstOffending(text) ==
    AttrTokens(text)[CHOOSE i \in Offending(text) :
                        \A j \in Offending(text) : i <= j]

\* The exception is a ParseError whose message names the token.
NamesToken(r, tok) ==
    r.kind = "ParseError" /\ r.msg = <<"unknown attribute", " ">> \o tok

\* C3: parsing a file whose first line is empty or blank always fails with
\* ParseError "whitespace title", whatever follows the first line.
C3_WhitespaceTitle ==
    (pc = "parsed" /\ FirstLineBlank(content)) =>
        (Outcome.kind = "ParseError" /\ Outcome.msg = <<"whitespace title">>)

\* C3, the part the code keeps: no Entry is made of such a file, and the
\* failure is the ParseError "whitespace title" when the name's stamp parses.
C3_NoEntryMade ==
    (pc = "parsed" /\ FirstLineBlank(content)) =>
        /\ Outcome.kind # "Entry"
        /\ StrpTimeFormat(TStr(path)) # None =>
              (Outcome.kind = "ParseError"
               /\ Outcome.msg = <<"whitespace title">>)

C3_Witness ==
    /\ pc = "parsed"
    /\ content = <<" ", "\n", "@", "a", "\n", "a">>
    /\ WellFormedName(path)
    /\ Outcome.msg = <<"whitespace title">>

TitleEnd(text) == FindFrom(text, "\n", 1)

\* The file ends after the title line.
EndsAfterTitle(text) == TitleEnd(text) \in {0, Len(text)}

\* Where the second line ends, 0 when no "\n" ends it.
SecondEnd(text) == FindFrom(text, "\n", TitleEnd(text) + 1)

SecondLine(text) ==
    SubSeq(text, TitleEnd(text) + 1,
           IF SecondEnd(text) = 0 THEN Len(text) ELSE SecondEnd(text))

IsBlank(line) == \A i \in 1..Len(line) : IsSpace(line[i])

\* The file ends after a second line that is not blank: the attribute line.
EndsAfterAttrs(text) ==
    /\ ~EndsAfterTitle(text)
    /\ ~IsBlank(SecondLine(text))
    /\ SecondEnd(text) \in {0, Len(text)}

\* Where the blank separator line ends: it is the second line when that
\* is blank and the third otherwise; 0 when no "\n" ends it.
SeparatorEnd(text) ==
    IF IsBlank(SecondLine(text)) THEN SecondEnd(text)
    ELSE FindFrom(text, "\n", SecondEnd(text) + 1)

\* The file text that follows the blank separator line.
AfterSeparator(text) ==
    IF SeparatorEnd(text) = 0 THEN <<>>
    ELSE SubSeq(text, SeparatorEnd(text) + 1, Len(text))

\* The tags the attribute line gives: each "@" token without its "@".
TagsOf(text) ==
    IF EndsAfterTitle(text) \/ IsBlank(SecondLine(text)) THEN {}
    ELSE LET toks == Split(Strip(SecondLine(text)), " ") IN
         {Tail(toks[i]) : i \in {k \in 1..Len(toks) :
                                    toks[k] # <<>> /\ toks[k][1] = "@"}}

TitleOf(text) ==
    Strip(SubSeq(text, 1,
                 IF TitleEnd(text) = 0 THEN Len(text) ELSE TitleEnd(text)))

\* C5: after a successful full parse the body is exactly the text after the
\* blank separator line; it is None when the file ends after the title line
\* or after the attribute line, and such a file (its stamp, title and
\* attributes being good) still parses, its title and tags intact.
C5_BodyVerbatim ==
    /\ (pc = "parsed" /\ Outcome.kind = "Entry" /\ ~meta_only) =>
          /\ Outcome.body =
                IF EndsAfterTitle(content) \/ EndsAfterAttrs(content)
                THEN None
                ELSE Some(AfterSeparator(content))
          /\ Outcome.title = TitleOf(content)
          /\ Outcome.tags = TagsOf(content)
    /\ (/\ pc = "parsed"
        /\ EndsAfterTitle(content) \/ EndsAfterAttrs(content)
        /\ StrpTimeFormat(TStr(path)) # None
        /\ TitleOf(content) # <<>>
        /\ EndsAfterAttrs(content) => Offending(content) = {}) =>
          (Outcome.kind = "Entry" /\ Outcome.body = None)

\* A body of two lines, the "\n" between them kept.
C5_Witness ==
    /\ pc = "parsed"
    /\ ~meta_only
    /\ content = <<"a", "\n", "\n", "a", "\n", "a">>
    /\ Outcome.kind = "Entry"
    /\ Outcome.body = Some(<<"a", "\n", "a">>)

\* C6: a file whose name does not begin with a well-formed time stamp
\* followed by the separator fails to parse with ParseError "bad timestamp".
C6_BadTimestamp ==
    (pc = "parsed" /\ ~WellFormedName(path)) =>
        (Outcome.kind = "ParseError" /\ Outcome.msg = <<"bad timestamp">>)

\* What the code does with such a name: the ValueError of strptime.
C6_Witness ==
    /\ pc = "parsed"
    /\ ~WellFormedName(path)
    /\ Outcome.kind = "ValueError"

(***************************************************************************)
(* TimeFilter                                                              *)
(***************************************************************************)
\* TimeFilter.__init__: start and stop are datetimes, or None.
TimeFilter(start, stop) == [start |-> start, stop |-> stop]

\* TimeFilter(): the defaults are datetime.min and datetime.max.
DefaultTimeFilter == TimeFilter(Some(DatetimeMin), Some(DatetimeMax))

\* TimeFilter.matches: the assert of its first branch fails.
MatchesAsserts(tf) == tf.start = None /\ tf.stop # None

\* A membership test whose bounds are exclusive.
MatchesExclusive(tf, entry, t_now) ==
    IF tf.start = None THEN TRUE
    ELSE LET stop == IF tf.stop = None THEN t_now ELSE tf.stop[1] IN
         /\ TimeLE(tf.start[1], entry.time) /\ tf.start[1] # entry.time
         /\ TimeLE(entry.time, stop) /\ entry.time # stop

\* TimeFilter.matches(entry), t_now being what TimeFilter.now() returns.
\* A datetime is never falsy, so "not self.start" holds of None alone.
Matches(tf, entry, t_now) ==
    IF tf.start = None THEN TRUE
    ELSE LET stop == IF tf.stop = None THEN t_now ELSE tf.stop[1] IN
         TimeLE(tf.start[1], entry.time) /\ TimeLE(entry.time, stop)

(***************************************************************************)
(* Entry.matches_tag, matches_text, matches_ids                            *)
(***************************************************************************)
LowerAtom(c) == IF c = "A" THEN "a" ELSE c

\* str.lower()
Lower(s) == [i \in 1..Len(s) |-> LowerAtom(s[i])]

\* text in contents
Contains(contents, text) ==
    \E i \in 0..(Len(contents) - Len(text)) :
        SubSeq(contents, i + 1, i + Len(text)) = text

MatchesTag(entry, tag) == tag \in entry.tags

\* A comparison that is exact whatever case_sensitive says.
MatchesTextExact(contents, text, case_sensitive) == Contains(contents, text)

\* contents is what the file at entry.path holds, read again from disk.
MatchesText(contents, text, case_sensitive) ==
    IF ~case_sensitive
    THEN Contains(Lower(contents), Lower(text))
    ELSE Contains(contents, text)

MatchesIds(entry, ids) == \E i \in 1..Len(ids) : ids[i] = entry.path

(***************************************************************************)
(* Journal._collect_entries                                                *)
(***************************************************************************)
\* FilterSettings.__init__: the default of case_sensitive.
CaseSensitiveDefault == FALSE

\* FilterSettings.__init__
FilterSettings(tags, terms, tf, ids, cs) ==
    [tag_filters |-> tags, textual_filters |-> terms, case_sensitive |-> cs,
     time_filter |-> tf, id_filters |-> ids]

\* A time test that leaves the immortal flag out.
TimeSkipsImmortalToo(entry, f, t_now) ==
    /\ f.time_filter # None
    /\ ~Matches(f.time_filter[1], entry, t_now)

\* The tests of one loop iteration that end it with "continue".  A list
\* that is None or empty is falsy, and so is a time filter that is None.
TimeSkips(entry, f, t_now) ==
    /\ ~entry.immortal
    /\ f.time_filter # None
    /\ ~Matches(f.time_filter[1], entry, t_now)

TagSkips(entry, f) ==
    /\ f.tag_filters # <<>>
    /\ ~(\A i \in 1..Len(f.tag_filters) : MatchesTag(entry, f.tag_filters[i]))

TextSkips(fl, f) ==
    /\ f.textual_filters # <<>>
    /\ ~(\A i \in 1..Len(f.textual_filters) :
            MatchesText(fl.text, f.textual_filters[i], f.case_sensitive))

IdSkips(entry, f) ==
    /\ f.id_filters # <<>>
    /\ ~MatchesIds(entry, f.id_filters)

\* Where e goes in a list sorted newest first: after every entry that is
\* not older, so that entries of one time keep the order they came in.
RECURSIVE InsertByTime(_, _)
InsertByTime(e, sorted) ==
    IF sorted = <<>> THEN <<e>>
    ELSE IF TimeLE(e.time, Head(sorted).time)
    THEN <<Head(sorted)>> \o InsertByTime(e, Tail(sorted))
    ELSE <<e>> \o sorted

\* An outcome that returns the list as the directory yielded it.
NotSorted(es) == es

\* sorted(entries, key=lambda e: e.time, reverse=True), a stable sort
RECURSIVE SortedNewestFirst(_)
SortedNewestFirst(es) ==
    IF es = <<>> THEN <<>>
    ELSE InsertByTime(es[Len(es)],
                      SortedNewestFirst(SubSeq(es, 1, Len(es) - 1)))

\* The body of the loop for the directory entry fl, entry being what
\* Entry(path, meta_only=not bodies) makes of it.
ScanFile(fl, entry) ==
    IF ~fl.is_file \/ StartsWith(fl.name, <<".">>)
    THEN /\ idx' = idx + 1
         /\ UNCHANGED <<pc, entries, raised>>
    ELSE IF entry.kind # "Entry"
    THEN /\ pc' = "raised"
         /\ raised' = Some(entry)
         /\ UNCHANGED <<idx, entries>>
    ELSE IF /\ ~entry.immortal
            /\ filters.time_filter # None
            /\ MatchesAsserts(filters.time_filter[1])
    THEN /\ pc' = "raised"
         /\ raised' = Some(Raised("AssertionError", <<>>))
         /\ UNCHANGED <<idx, entries>>
    ELSE IF \/ TimeSkips(entry, filters, now)
            \/ TagSkips(entry, filters)
            \/ TextSkips(fl, filters)
            \/ IdSkips(entry, filters)
    THEN /\ idx' = idx + 1
         /\ UNCHANGED <<pc, entries, raised>>
    ELSE /\ idx' = idx + 1
         /\ entries' = Append(entries, entry)
         /\ UNCHANGED <<pc, raised>>

\* One iteration of the loop over os.scandir(self.directory).
ScanNext ==
    /\ pc = "collect"
    /\ idx <= Len(directory)
    /\ ScanFile(directory[idx],
                Parse(directory[idx].name, directory[idx].text, ~bodies))
    /\ UNCHANGED <<directory, filters, bodies, returned, edited, parseVars,
                   timeVars, renderVars, now, editVars>>

\* The loop is over: return sorted(entries, ...).
ReturnSorted ==
    /\ pc = "collect"
    /\ idx > Len(directory)
    /\ returned' = Some(SortedNewestFirst(entries))
    /\ pc' = "returned"
    /\ UNCHANGED <<directory, filters, bodies, idx, entries, raised, edited,
                   parseVars, timeVars, renderVars, now, editVars>>

\* FilterSettings(): no filter of any kind.
DefaultFilterSettings ==
    FilterSettings(<<>>, <<>>, None, <<>>, CaseSensitiveDefault)

\* The identifiers of relative addressing that edit_entry is given.
RelativeIdents ==
    {<<"^", d>> : d \in {"0", "1", "2", "3"}}
        \cup {<<"^">>, <<"^", "x">>, <<"^", "-", "1">>}

\* edit_entry(ident), ident starting with "^", from the return of its call
\* _collect_entries(bodies=False, filters=FilterSettings()) on: the index
\* is read, and the entry it picks goes to _edit_existing_entries.
EditRelative ==
    /\ pc = "returned"
    /\ filters = DefaultFilterSettings
    /\ ~bodies
    /\ \E ident \in RelativeIdents :
          LET num == IntOf(Tail(ident))
              n == IF num = None THEN 0 - 1 ELSE num[1]
          IN  edited' =
                IF n < 0 \/ n >= Len(returned[1])
                THEN Some([kind |-> "exit", msg |-> <<"Invalid index">>,
                           ident |-> ident, entries |-> <<>>])
                ELSE Some([kind |-> "edit", msg |-> <<>>, ident |-> ident,
                           entries |-> <<returned[1][n + 1]>>])
    /\ pc' = "edited"
    /\ UNCHANGED <<directory, filters, bodies, idx, entries, returned,
                   raised, parseVars, timeVars, renderVars, now, editVars>>

(***************************************************************************)
(* The journals and the queries the scan is run on                         *)
(***************************************************************************)
\* Most directory entries of a scanned journal.
MaxFiles == 3

DirEntry(name, is_file, text) ==
    [name |-> name, is_file |-> is_file, text |-> text]

\* Two entries of one time, an old immortal one, a title-only one, a file
\* with an unknown attribute, a file whose name holds no time stamp, a
\* dotfile and a subdirectory.
FilePool ==
    {DirEntry(<<"20170101_120000", "-", "a">>, TRUE,
              <<"A", " ", "a", "\n", "@", "a", " ", "@", "b", "\n", "\n",
                "a", "\n">>),
     DirEntry(<<"20170101_120000", "-", "b">>, TRUE,
              <<"b", "\n", "@", "b", "\n", "\n", "A", "\n">>),
     DirEntry(<<"20160101_000000", "-", "a">>, TRUE,
              <<"a", "\n", "immortal", " ", "@", "a", "\n">>),
     DirEntry(<<"20170103_120000", "-", "a">>, TRUE, <<"a", "\n">>),
     DirEntry(<<"20170103_120000", "-", "b">>, TRUE,
              <<"a", "\n", "b", "\n">>),
     DirEntry(<<"a">>, TRUE, <<"a", "\n">>),
     DirEntry(<<".", "a">>, TRUE, <<"\n">>),
     DirEntry(<<"b">>, FALSE, <<>>)}

Directories ==
    {d \in SeqsUpTo(FilePool, MaxFiles) :
        \A i, j \in 1..Len(d) : i # j => d[i].name # d[j].name}

TimeFilterChoices ==
    {None,
     Some(DefaultTimeFilter),
     Some(TimeFilter(Some(DateTime(2017, 1, 1, 12, 0, 0)),
                     Some(DateTime(2017, 1, 2, 0, 0, 0))))}

FilterChoices ==
    {FilterSettings(tags, terms, tf, ids, cs) :
        tags \in {<<>>, <<<<"a">>>>, <<<<"a">>, <<"b">>>>},
        terms \in {<<>>, <<<<"A">>>>, <<<<"a">>, <<"b">>>>},
        tf \in TimeFilterChoices,
        ids \in {<<>>, <<<<"20170101_120000", "-", "a">>,
                          <<"20160101_000000", "-", "a">>>>},
        cs \in {CaseSensitiveDefault, TRUE}}

Init ==
    /\ pc = "collect"
    /\ directory \in Directories
    /\ filters \in FilterChoices
    /\ bodies \in BOOLEAN
    /\ idx = 1
    /\ entries = <<>>
    /\ returned = None
    /\ raised = None
    /\ edited = None
    /\ ParseIdle
    /\ TimeIdle
    /\ RenderIdle
    /\ EditIdle
    /\ now = DateTime(2017, 1, 2, 0, 0, 0)

Next == ScanNext \/ ReturnSorted \/ EditRelative

Spec == Init /\ [][Next]_vars

(***************************************************************************)
(* Claims about the scan (checked under Spec)                              *)
(***************************************************************************)
Range(seq) == {seq[i] : i \in 1..Len(seq)}

\* The scan is over: it returned, or an exception left it.
ScanOver == pc \in {"returned", "raised"}

\* The entries the caller of _collect_entries receives.
ReturnedSet == IF returned = None THEN {} ELSE Range(returned[1])

\* A directory entry the scan looks into: a regular file, not a dotfile.
IsScanned(fl) == fl.is_file /\ fl.name[1] # "."

EntryOf(fl) == Parse(fl.name, fl.text, ~bodies)

\* What Entry(...) makes of each directory entry.
Parses == [k \in 1..Len(directory) |-> EntryOf(directory[k])]

\* The scanned files of which no Entry can be made.
MalformedIn(ps) ==
    {k \in 1..Len(directory) :
        IsScanned(directory[k]) /\ ps[k].kind # "Entry"}

Malformed == MalformedIn(Parses)

\* The four predicates of a query, each as the claim words it.
TimeOk(e) ==
    \/ filters.time_filter = None
    \/ e.immortal
    \/ /\ TimeLE(filters.time_filter[1].start[1], e.time)
       /\ TimeLE(e.time, filters.time_filter[1].stop[1])

TagsOk(e) == Range(filters.tag_filters) \subseteq e.tags

\* A term occurs in a text: some stretch of the text equals it, letter
\* case aside unless the query is case sensitive.
Occurs(term, text) ==
    \E i \in 0..(Len(text) - Len(term)) :
        \A j \in 1..Len(term) :
            \/ text[i + j] = term[j]
            \/ ~filters.case_sensitive
               /\ LowerAtom(text[i + j]) = LowerAtom(term[j])

TextOk(fl) == \A t \in Range(filters.textual_filters) : Occurs(t, fl.text)

IdsOk(fl) == filters.id_filters = <<>> \/ fl.name \in Range(filters.id_filters)

\* The file fl, of which e is the entry, is one the query asks for.
Wanted(fl, e) ==
    /\ IsScanned(fl)
    /\ e.kind = "Entry"
    /\ TimeOk(e)
    /\ TagsOk(e)
    /\ TextOk(fl)
    /\ IdsOk(fl)

ExpectedIn(ps) ==
    {ps[k] : k \in {i \in 1..Len(directory) : Wanted(directory[i], ps[i])}}

\* The entries a query asks for.
Expected == ExpectedIn(Parses)

\* C1: for any directory and any FilterSettings, _collect_entries returns
\* exactly the entries of the non-hidden regular files that pass the time,
\* tag, text and identifier predicates.
C1_ReturnsExactlyMatching == ScanOver => ReturnedSet = Expected

\* C1, the part the code keeps: a scan that returns, returns exactly those
\* entries, each once.
C1_WhenReturned ==
    pc = "returned" =>
        (ReturnedSet = Expected
         /\ Len(returned[1]) = Cardinality(ReturnedSet))

\* An entry that passes every predicate is lost because another file of
\* the directory does not parse.
C1_Witness ==
    /\ pc = "raised"
    /\ Expected # {}
    /\ filters.tag_filters # <<>>
    /\ filters.textual_filters # <<>>

\* The scan kept the immortal entry e of the file fl exactly when it
\* passes the tag, text and identifier filters.
ImmortalKept(fl, e) ==
    (IsScanned(fl) /\ e.kind = "Entry" /\ e.immortal) =>
        (e \in Range(entries) <=> (TagsOk(e) /\ TextOk(fl) /\ IdsOk(fl)))

C7_ScanSurvivesMalformed ==
    (ScanOver /\ Malformed # {}) =>
        (pc = "returned" /\ Expected \subseteq ReturnedSet)

\* What the code does: the exception of the malformed file leaves the scan
\* (its message does not hold the path) and nothing is returned, though a
\* sibling was already collected.
C7_Witness ==
    /\ pc = "raised"
    /\ returned = None
    /\ raised[1].kind = "ParseError"
    /\ raised[1].path = None
    /\ entries # <<>>

\* The term occurs in the text once both are lower-cased.
OccursLowered(term, text) ==
    \E i \in 0..(Len(text) - Len(term)) :
        \A j \in 1..Len(term) : LowerAtom(text[i + j]) = LowerAtom(term[j])

\* The term occurs in the text as it stands.
OccursExactly(term, text) ==
    \E i \in 0..(Len(text) - Len(term)) :
        \A j \in 1..Len(term) : text[i + j] = term[j]

\* Every term of the query occurs in what the file holds, in the mode the
\* query asks for.
TermsOccur(fl) ==
    \A t \in Range(filters.textual_filters) :
        IF filters.case_sensitive THEN OccursExactly(t, fl.text)
        ELSE OccursLowered(t, fl.text)

\* The scan kept the entry e of the file fl, which passes the time, tag
\* and identifier filters, exactly when every term occurs in the file.
TextDecides(fl, e) ==
    (IsScanned(fl) /\ e.kind = "Entry" /\ TimeOk(e) /\ TagsOk(e) /\ IdsOk(fl))
        => (e \in Range(entries) <=> TermsOccur(fl))

Returned == returned[1]

\* Where the directory enumeration yielded the file of the entry e.
EnumIndex(e) == CHOOSE k \in 1..Len(directory) : directory[k].name = e.path

\* a is newer than b.
Newer(a, b) == ~TimeLE(a.time, b.time)

\* The entries of the returned sequence that rank before e: the newer
\* ones, and of those of the same time the ones enumerated earlier.
RankedBefore(e) ==
    {f \in ReturnedSet :
        \/ Newer(f, e)
        \/ f.time = e.time /\ EnumIndex(f) < EnumIndex(e)}

\* The index an identifier "^N" spells, N a run of digits.
IndexOf(ident) == DigitValue(ident[2])

DeltaMonth30(num, unit) ==
    CASE unit = "M" -> [days |-> (num * 60) \div 86400,
                        secs |-> (num * 60) % 86400]
      [] unit = "h" -> [days |-> (num * 3600) \div 86400,
                        secs |-> (num * 3600) % 86400]
      [] unit = "d" -> [days |-> num, secs |-> 0]
      [] unit = "w" -> [days |-> num * 7, secs |-> 0]
      [] unit = "m" -> [days |-> num * 30, secs |-> 0]
      [] unit = "y" -> [days |-> num * 365, secs |-> 0]

\* The timedelta of num units, normalised as timedelta does: whole days and
\* 0 <= secs < 86400.
Delta(num, unit) ==
    CASE unit = "M" -> [days |-> (num * 60) \div 86400,
                        secs |-> (num * 60) % 86400]
      [] unit = "h" -> [days |-> (num * 3600) \div 86400,
                        secs |-> (num * 3600) % 86400]
      [] unit = "d" -> [days |-> num, secs |-> 0]
      [] unit = "w" -> [days |-> num * 7, secs |-> 0]
      [] unit = "m" -> [days |-> num * 31, secs |-> 0]
      [] unit = "y" -> [days |-> num * 365, secs |-> 0]

\* What _parse_time_filter_elem and from_arg produce.
Resolved(t) == [kind |-> "datetime", msg |-> <<>>, time |-> t]
Failed(kind, msg) == [kind |-> kind, msg |-> msg, time |-> DatetimeMin]

\* t - delta; outside datetime.min .. datetime.max it is an OverflowError.
MinusDelta(t, delta) ==
    LET secs == t.sec - delta.secs
        day == t.day - delta.days + (secs \div 86400)
    IN  IF day < DatetimeMin.day \/ day > DatetimeMax.day
        THEN Failed("OverflowError", <<"date value out of range">>)
        ELSE Resolved([day |-> day, sec |-> secs % 86400])

\* TimeFilter.ABS_TIME_FMTS, each format as its directives and literals.
ABS_TIME_FMTS ==
    << <<"%Y">>,
       <<"%Y", "-", "%m">>,
       <<"%Y", "-", "%m", "-", "%d">>,
       <<"%Y", "-", "%m", "-", "%d", " ", "%H">>,
       <<"%Y", "-", "%m", "-", "%d", " ", "%H", ":", "%M">>,
       <<"%Y", "-", "%m", "-", "%d", " ", "%H", ":", "%M", ":", "%S">> >>

Directives == {"%Y", "%m", "%d", "%H", "%M", "%S"}

\* A space of a format stands for one or more spaces of the string.
RECURSIVE CollapseSpaces(_)
CollapseSpaces(s) ==
    IF Len(s) < 2 THEN s
    ELSE IF s[1] = " " /\ s[2] = " " THEN CollapseSpaces(Tail(s))
    ELSE <<s[1]>> \o CollapseSpaces(Tail(s))

\* The text a directive of strptime accepts.
DirectiveAccepts(d, a) ==
    /\ a \in DigitRuns
    /\ CASE d = "%Y" -> DigitWidth(a) = 4
         [] d = "%m" -> DigitWidth(a) <= 2 /\ DigitValue(a) \in 1..12
         [] d = "%d" -> DigitWidth(a) <= 2 /\ DigitValue(a) \in 1..31
         [] d = "%H" -> DigitWidth(a) <= 2 /\ DigitValue(a) \in 0..23
         [] d = "%M" -> DigitWidth(a) <= 2 /\ DigitValue(a) \in 0..59
         [] d = "%S" -> DigitWidth(a) <= 2 /\ DigitValue(a) \in 0..61

\* The value read for directive d, or the default of a field the format
\* does not have.
FieldOf(c, fmt, d, default) ==
    IF \E i \in 1..Len(fmt) : fmt[i] = d
    THEN DigitValue(c[CHOOSE i \in 1..Len(fmt) : fmt[i] = d])
    ELSE default

\* datetime.strptime(elem, fmt): the instant, or None for the ValueError.
StrpTime(elem, fmt) ==
    LET c == CollapseSpaces(elem) IN
    IF /\ Len(c) = Len(fmt)
       /\ \A i \in 1..Len(fmt) :
            IF fmt[i] \in Directives THEN DirectiveAccepts(fmt[i], c[i])
            ELSE c[i] = fmt[i]
    THEN LET y == FieldOf(c, fmt, "%Y", 1900)
             m == FieldOf(c, fmt, "%m", 1)
             d == FieldOf(c, fmt, "%d", 1)
             H == FieldOf(c, fmt, "%H", 0)
             M == FieldOf(c, fmt, "%M", 0)
             S == FieldOf(c, fmt, "%S", 0)
         IN  IF d <= DaysInMonth(y, m) /\ S <= 59
             THEN Some(DateTime(y, m, d, H, M, S))
             ELSE None
    ELSE None

\* The loop over ABS_TIME_FMTS from format k on: the first format that
\* accepts elem decides; when none does, TimeFilterException.
RECURSIVE TryFormats(_, _)
TryFormats(elem, k) ==
    IF k > Len(ABS_TIME_FMTS)
    THEN Failed("TimeFilterException", <<"bogus time spec element">>)
    ELSE LET t == StrpTime(elem, ABS_TIME_FMTS[k]) IN
         IF t # None THEN Resolved(t[1]) ELSE TryFormats(elem, k + 1)

\* TimeFilter._parse_time_filter_elem(elem, which), t_now being what
\* TimeFilter.now() returns.
ParseTimeFilterElem(elem, which, t_now) ==
    IF elem = <<>>
    THEN Resolved(IF which = "start" THEN DatetimeMin ELSE DatetimeMax)
    ELSE IF Len(elem) > 1 /\ elem[Len(elem)] \in Units
    THEN LET num == IntOf(SubSeq(elem, 1, Len(elem) - 1)) IN
         IF num = None
         THEN Failed("TimeFilterException", <<"bogus time spec element">>)
         ELSE MinusDelta(t_now, Delta(num[1], elem[Len(elem)]))
    ELSE TryFormats(elem, 1)

\* What from_arg leaves: a TimeFilter, or the exception raised.
MadeFilter(start, stop) ==
    [kind |-> "TimeFilter", msg |-> <<>>,
     filter |-> TimeFilter(Some(start), Some(stop))]
RaisedFilter(kind, msg) ==
    [kind |-> kind, msg |-> msg, filter |-> TimeFilter(None, None)]

\* from_arg once both parts are parsed.
FromParts(start, stop) ==
    IF start.kind # "datetime" THEN RaisedFilter(start.kind, start.msg)
    ELSE IF stop.kind # "datetime" THEN RaisedFilter(stop.kind, stop.msg)
    ELSE IF ~TimeLE(start.time, stop.time)
    THEN RaisedFilter("TimeFilterException",
                      <<"start time is later than stop time">>)
    ELSE MadeFilter(start.time, stop.time)

\* TimeFilter.from_arg(arg): the expression is split at ":" before any
\* part is read.
FromArg(a, t_now) ==
    LET elems == Split(a, ":") IN
    IF Len(elems) > 2
    THEN RaisedFilter("TimeFilterException",
                      <<"wrong number of time elements">>)
    ELSE FromParts(ParseTimeFilterElem(elems[1], "start", t_now),
                   IF Len(elems) = 2
                   THEN ParseTimeFilterElem(elems[2], "stop", t_now)
                   ELSE Resolved(DatetimeMax))

(***************************************************************************)
(* The time filter as a state machine: an expression is given, from_arg    *)
(* reads it at the instant the clock shows, the clock moves on, and        *)
(* matches is asked about entries.                                         *)
(***************************************************************************)
MaxParts == 3
MaxTicks == 2

\* Relative parts: every unit with a small and a huge number, a negative
\* number, white space around the number, and no number.
RelativeParts ==
    {<<n, u>> : n \in {"1", "2", "3000"}, u \in Units}
        \cup {<<"-", "2", "d">>, <<" ", "2", "d">>, <<"2", " ", "d">>,
              <<"x", "d">>, <<"d">>}

\* Absolute parts up to the hour, well formed and not.
AbsoluteParts ==
    {<<"2016">>, <<"2017">>, <<"3000">>, <<"12">>,
     <<"2017", "-", "1">>, <<"2017", "-", "12">>, <<"2017", "-", "30">>,
     <<"2017", "-", "2016">>, <<"2017", "-">>, <<"2017", " ">>,
     <<"2017", "-", "1", "-", "2">>, <<"2017", "-", "2", "-", "30">>,
     <<"2017", "-", "12", "-", "30">>,
     <<"2017", "-", "1", "-", "2", " ", "12">>,
     <<"2017", "-", "1", "-", "2", " ", " ", "12">>,
     <<"2017", "-", "1", "-", "2", " ", "30">>,
     <<"2017", "-", "1", "-", "2", "12">>,
     <<"x">>}

Parts == {<<>>} \cup RelativeParts \cup AbsoluteParts

\* The parts that longer expressions are put together from; with ":"
\* between them they spell the absolute times of minute and second
\* precision.
FewParts ==
    {<<>>, <<"1", "d">>, <<"30">>, <<"12">>,
     <<"2017", "-", "1", "-", "2", " ", "12">>}

\* ":".join(ps)
RECURSIVE JoinColon(_)
JoinColon(ps) ==
    IF Len(ps) = 0 THEN <<>>
    ELSE IF Len(ps) = 1 THEN ps[1]
    ELSE ps[1] \o <<":">> \o JoinColon(Tail(ps))

TimeArgs ==
    Parts \cup {p \o <<":">> \o q : p \in Parts, q \in Parts}
          \cup {JoinColon(ps) : ps \in SeqsUpTo(FewParts, MaxParts)}

\* now + one day, as far as datetime goes.
NextDay(t) == [day |-> t.day + 1, sec |-> t.sec]

\* The times entries are asked about: those of the file stamps, the
\* present, and the bounds a filter has.
ProbeTimes(tf, t_now) ==
    {StampTime(st) : st \in Stamps} \cup {t_now}
        \cup (IF tf.start = None THEN {} ELSE {tf.start[1]})
        \cup (IF tf.stop = None THEN {} ELSE {tf.stop[1]})

InitTime ==
    /\ pc = "from_arg"
    /\ arg \in TimeArgs
    /\ time_filter = None
    /\ t_parsed = None
    /\ probe = None
    /\ ticks = 0
    /\ ParseIdle
    /\ CollectIdle
    /\ RenderIdle
    /\ EditIdle
    /\ now = DateTime(2017, 1, 2, 0, 0, 0)

\* The clock moves on by a day.
Tick ==
    /\ pc \in {"from_arg", "matching"}
    /\ ticks < MaxTicks
    /\ now' = NextDay(now)
    /\ ticks' = ticks + 1
    /\ UNCHANGED <<pc, arg, time_filter, t_parsed, probe, parseVars,
                   collectVars, renderVars, editVars>>

\* TimeFilter.from_arg(arg)
FromArgStep ==
    /\ pc = "from_arg"
    /\ time_filter' = Some(FromArg(arg, now))
    /\ t_parsed' = Some(now)
    /\ pc' = "matching"
    /\ UNCHANGED <<arg, probe, ticks, now, parseVars, collectVars,
                   renderVars, editVars>>

\* TimeFilter.matches(entry) on the filter from_arg returned.
MatchEntry ==
    /\ pc = "matching"
    /\ time_filter[1].kind = "TimeFilter"
    /\ \E t \in ProbeTimes(time_filter[1].filter, now) :
          probe' = Some([time |-> t, at |-> now,
                         result |-> Matches(time_filter[1].filter,
                                            [time |-> t], now)])
    /\ UNCHANGED <<pc, arg, time_filter, t_parsed, ticks, now, parseVars,
                   collectVars, renderVars, editVars>>

NextTime == Tick \/ FromArgStep \/ MatchEntry

SpecTime == InitTime /\ [][NextTime]_vars

(***************************************************************************)
(* Properties of the time filter                                           *)
(***************************************************************************)
\* from_arg returned a filter.
Made == time_filter # None /\ time_filter[1].kind = "TimeFilter"

FilterStart == time_filter[1].filter.start[1]
FilterStop == time_filter[1].filter.stop[1]

\* The parts of the expression.
Elems == Split(arg, ":")

\* a is not later than b: b falls on no earlier day, and on the same day
\* at no earlier second.
NotAfter(a, b) == ~(b.day < a.day \/ (b.day = a.day /\ b.sec < a.sec))

\* C8: matches(entry) holds exactly when start <= entry.time <= stop, both
\* bounds inclusive; an empty start part is the distant past and an empty
\* stop part the distant future, so the filter ":" matches every entry,
\* those stamped datetime.min, datetime.max and now included.
C8_MatchesInclusive ==
    Made =>
        /\ (Elems[1] = <<>>) => FilterStart = DatetimeMin
        /\ (Len(Elems) = 2 /\ Elems[2] = <<>>) => FilterStop = DatetimeMax
        /\ probe # None =>
              /\ probe[1].result <=>
                    /\ NotAfter(FilterStart, probe[1].time)
                    /\ NotAfter(probe[1].time, FilterStop)
              /\ (arg = <<":">>) => probe[1].result

\* The filter ":" was asked about an entry stamped datetime.max, and
\* matched it.
C8_Witness ==
    /\ Made
    /\ arg = <<":">>
    /\ probe # None
    /\ probe[1].time = DatetimeMax
    /\ probe[1].result

\* A part of the form <integer><unit>, the integer with or without a sign.
IsRelative(e) ==
    \/ Len(e) = 2 /\ e[1] \in DigitRuns /\ e[2] \in Units
    \/ Len(e) = 3 /\ e[1] = "-" /\ e[2] \in DigitRuns /\ e[3] \in Units

CountOf(e) == IF Len(e) = 2 THEN DigitValue(e[1]) ELSE 0 - DigitValue(e[2])
UnitOf(e) == e[Len(e)]

\* t lies n units before t0: M and h are counted in seconds, the other
\* units in days of unchanged time of day.
IsAgo(t, t0, n, u) ==
    CASE u = "M" -> (t0.day - t.day) * 86400 + (t0.sec - t.sec) = n * 60
      [] u = "h" -> (t0.day - t.day) * 86400 + (t0.sec - t.sec) = n * 3600
      [] u = "d" -> t.sec = t0.sec /\ t0.day - t.day = n
      [] u = "w" -> t.sec = t0.sec /\ t0.day - t.day = n * 7
      [] u = "m" -> t.sec = t0.sec /\ t0.day - t.day = n * 31
      [] u = "y" -> t.sec = t0.sec /\ t0.day - t.day = n * 365

\* C9: a part <integer><unit> is resolved to now minus the duration, now
\* being the clock as read when the expression was parsed and the units
\* M = minutes, h = hours, d = days, w = 7 days, m = 31 days, y = 365
\* days; "2y:1y" yields start = now - 730 days and stop = now - 365 days.
\* Such a part is never turned down as a bogus element.
C9_RelativeToNow ==
    time_filter # None =>
        /\ (\A i \in 1..Len(Elems) : Elems[i] = <<>> \/ IsRelative(Elems[i]))
              => time_filter[1].msg # <<"bogus time spec element">>
        /\ Made =>
              /\ IsRelative(Elems[1]) =>
                    IsAgo(FilterStart, t_parsed[1],
                          CountOf(Elems[1]), UnitOf(Elems[1]))
              /\ (Len(Elems) = 2 /\ IsRelative(Elems[2])) =>
                    IsAgo(FilterStop, t_parsed[1],
                          CountOf(Elems[2]), UnitOf(Elems[2]))
        /\ (arg = <<"2", "y", ":", "1", "y">>) =>
              /\ Made
              /\ FilterStart = [day |-> t_parsed[1].day - 730,
                                sec |-> t_parsed[1].sec]
              /\ FilterStop = [day |-> t_parsed[1].day - 365,
                               sec |-> t_parsed[1].sec]

\* "2y:1y" was parsed and the clock has moved on since.
C9_Witness ==
    /\ Made
    /\ arg = <<"2", "y", ":", "1", "y">>
    /\ now # t_parsed[1]

\* The instant the first format of ABS_TIME_FMTS that accepts e denotes,
\* e taken as one part; None when no format accepts it.
RECURSIVE FirstMatch(_, _)
FirstMatch(e, k) ==
    IF k > Len(ABS_TIME_FMTS) THEN None
    ELSE IF StrpTime(e, ABS_TIME_FMTS[k]) # None
    THEN StrpTime(e, ABS_TIME_FMTS[k])
    ELSE FirstMatch(e, k + 1)

\* The expression is an absolute time, of the precision of format k.
IsAbsolute(e, k) == StrpTime(e, ABS_TIME_FMTS[k]) # None

\* C10: an absolute time is accepted by from_arg at each of the six
\* precisions - year, month, day, hour, minute, second - and resolves to
\* the instant denoted by the first format that matches it.
C10_SixPrecisions ==
    (time_filter # None /\ FirstMatch(arg, 1) # None) =>
        /\ Made
        /\ FilterStart = FirstMatch(arg, 1)[1]

\* What holds of the code: the same of the four precisions whose formats
\* hold no ":".
C10_UpToHour ==
    (time_filter # None /\ \E k \in 1..4 : IsAbsolute(arg, k)) =>
        /\ Made
        /\ FilterStart = FirstMatch(arg, 1)[1]

\* A time of minute precision was given, and from_arg raised.
C10_Witness ==
    /\ IsAbsolute(arg, 5)
    /\ time_filter # None
    /\ time_filter[1].kind = "TimeFilterException"

\* The expression gives a start and no stop.
OpenEnded == Elems[1] # <<>> /\ (Len(Elems) = 1 \/ Elems[2] = <<>>)

\* C11: a filter whose expression gives a start and no stop, such as "1d",
\* tracks the present: matches takes the clock as it stands at the match,
\* not as it stood when the expression was parsed, for the upper bound.
C11_TracksPresent ==
    (Made /\ OpenEnded /\ probe # None) =>
        (probe[1].result <=>
            /\ NotAfter(FilterStart, probe[1].time)
            /\ NotAfter(probe[1].time, probe[1].at))

\* What holds of the code: from_arg never leaves stop unset, so the upper
\* bound of an open-ended filter is datetime.max at every match.
C11_StopIsDistantFuture ==
    (Made /\ OpenEnded) => time_filter[1].filter.stop = Some(DatetimeMax)

\* The filter "1d" matched an entry stamped later than the present.
C11_Witness ==
    /\ Made
    /\ arg = <<"1", "d">>
    /\ probe # None
    /\ ~NotAfter(probe[1].time, probe[1].at)
    /\ probe[1].result

\* A part that is empty, relative or an absolute time.
IsPart(e) == e = <<>> \/ IsRelative(e) \/ FirstMatch(e, 1) # None

\* C12: from_arg either returns a filter with start <= stop or fails with
\* TimeFilterException; it fails with it when the expression has more than
\* two parts and when a part is neither empty, relative nor absolute.
C12_FilterOrTimeFilterException ==
    time_filter # None =>
        /\ \/ Made /\ NotAfter(FilterStart, FilterStop)
           \/ time_filter[1].kind = "TimeFilterException"
        /\ Len(Elems) > 2 => time_filter[1].kind = "TimeFilterException"
        /\ (\E i \in 1..Len(Elems) : ~IsPart(Elems[i]))
              => time_filter[1].kind = "TimeFilterException"

\* What holds of the code: no filter has its start later than its stop.
C12_NeverStartAfterStop ==
    Made => NotAfter(FilterStart, FilterStop)

\* "3000y" was given, and from_arg left with an OverflowError.
C12_Witness ==
    /\ arg = <<"3000", "y">>
    /\ time_filter # None
    /\ time_filter[1].kind = "OverflowError"

(***************************************************************************)
(* format_body                                                             *)
(* A body is a sequence of characters, a line a sequence of characters     *)
(* without "\n".  The paragraph lines of the bodies looked at hold no      *)
(* hyphen, so textwrap breaks them at white space and inside long words    *)
(* only.                                                                   *)
(***************************************************************************)
\* str.splitlines(): the lines without their ends; no empty last line
\* for a text that ends with "\n".
RECURSIVE SplitLines(_)
SplitLines(s) ==
    LET i == FindFrom(s, "\n", 1) IN
    IF s = <<>> THEN <<>>
    ELSE IF i = 0 THEN <<s>>
    ELSE <<SubSeq(s, 1, i - 1)>> \o SplitLines(SubSeq(s, i + 1, Len(s)))

\* sep.join(parts)
RECURSIVE JoinWith(_, _)
JoinWith(parts, sep) ==
    IF parts = <<>> THEN <<>>
    ELSE IF Len(parts) = 1 THEN parts[1]
    ELSE parts[1] \o sep \o JoinWith(Tail(parts), sep)

\* The length of the run of characters at the head of s that are (space =
\* TRUE) or are not (space = FALSE) white space.
RECURSIVE RunLen(_, _)
RunLen(s, space) ==
    IF s # <<>> /\ (IsSpace(Head(s)) <=> space)
    THEN 1 + RunLen(Tail(s), space)
    ELSE 0

\* str.split(): the words of a line.
RECURSIVE Words(_)
Words(s) ==
    LET t == LStrip(s)
        n == RunLen(t, FALSE)
    IN  IF t = <<>> THEN <<>>
        ELSE <<SubSeq(t, 1, n)>> \o Words(SubSeq(t, n + 1, Len(t)))

\* TextWrapper._munge_whitespace: every white space character becomes " ".
MungeWhitespace(text) ==
    [i \in 1..Len(text) |-> IF IsSpace(text[i]) THEN " " ELSE text[i]]

\* TextWrapper._split: the chunks of a text, each a word or a run of
\* white space.
RECURSIVE SplitChunks(_)
SplitChunks(text) ==
    IF text = <<>> THEN <<>>
    ELSE LET n == RunLen(text, IsSpace(Head(text))) IN
         <<SubSeq(text, 1, n)>> \o SplitChunks(SubSeq(text, n + 1, Len(text)))

IsBlankChunk(c) == Strip(c) = <<>>

\* The inner loop of _wrap_chunks: chunks move to the current line while
\* they fit in the width.
RECURSIVE TakeFitting(_, _, _)
TakeFitting(chunks, cur_line, width) ==
    IF chunks # <<>> /\ Len(Join(cur_line)) + Len(Head(chunks)) <= width
    THEN TakeFitting(Tail(chunks), Append(cur_line, Head(chunks)), width)
    ELSE [cur_line |-> cur_line, chunks |-> chunks]

\* _handle_long_word with break_long_words: the head chunk, longer than a
\* line, gives the current line as much as it has room for.
HandleLongWord(t, width) ==
    IF t.chunks # <<>> /\ Len(Head(t.chunks)) > width
    THEN LET space_left == width - Len(Join(t.cur_line))
             chunk == Head(t.chunks)
         IN  [cur_line |-> Append(t.cur_line, SubSeq(chunk, 1, space_left)),
              chunks |-> <<SubSeq(chunk, space_left + 1, Len(chunk))>>
                            \o Tail(t.chunks)]
    ELSE t

\* drop_whitespace at the end of a line: its last chunk goes when blank.
DropLastBlank(cur_line) ==
    IF cur_line # <<>> /\ IsBlankChunk(cur_line[Len(cur_line)])
    THEN SubSeq(cur_line, 1, Len(cur_line) - 1)
    ELSE cur_line

\* TextWrapper._wrap_chunks for a width > 0, lines being those made so far.
RECURSIVE WrapChunks(_, _, _)
WrapChunks(chunks, width, lines) ==
    IF chunks = <<>> THEN lines
    ELSE LET rest == IF IsBlankChunk(Head(chunks)) /\ lines # <<>>
                     THEN Tail(chunks) ELSE chunks
             t == HandleLongWord(TakeFitting(rest, <<>>, width), width)
             cur_line == DropLastBlank(t.cur_line)
         IN  WrapChunks(t.chunks, width,
                        IF cur_line # <<>>
                        THEN Append(lines, Join(cur_line))
                        ELSE lines)

\* textwrap.wrap(text, width), width > 0
TextWrap(text, width) ==
    WrapChunks(SplitChunks(MungeWhitespace(text)), width, <<>>)

\* The locals of format_body; raised stands for the ValueError that
\* textwrap.wrap left with.
BodyState(para_lines, outs, in_triples, in_list, newline_on_next, err) ==
    [para_lines |-> para_lines, out_lines |-> outs,
     in_triples |-> in_triples, in_list |-> in_list,
     newline_on_next |-> newline_on_next, raised |-> err]

\* The grave accent, a character that a string of this notation cannot
\* hold; the atom stands for it.
Backtick == "grave"

\* The line that opens and closes a verbatim block.
Triple == <<Backtick, Backtick, Backtick>>

\* flush_para(last_para); textwrap.wrap raises ValueError for a width of 0.
FlushPara(st, last_para, width) ==
    IF st.para_lines # <<>> /\ width <= 0
    THEN [st EXCEPT !.raised = TRUE]
    ELSE [st EXCEPT
            !.out_lines =
                IF st.para_lines = <<>> THEN @
                ELSE @ \o TextWrap(JoinWith(st.para_lines, <<"\n">>), width)
                       \o (IF last_para THEN <<>> ELSE << <<>> >>),
            !.para_lines = <<>>,
            !.in_list = FALSE,
            !.newline_on_next = FALSE]

\* out_lines.append(line) on the state st
Emit(st, line) == [st EXCEPT !.out_lines = Append(@, line)]

\* '-' * n
RECURSIVE Dashes(_)
Dashes(n) == IF n <= 0 THEN <<>> ELSE <<"-">> \o Dashes(n - 1)

IsUrlLine(line) ==
    \/ StartsWith(line, <<"h", "t", "t", "p", ":", "/", "/">>)
    \/ StartsWith(line, <<"h", "t", "t", "p", "s", ":", "/", "/">>)

\* all([ch == "#" for ch in words[0]])
IsHeadingLine(line) ==
    LET w == Words(line)[1] IN \A i \in 1..Len(w) : w[i] = "#"

\* line.lstrip().startswith(("-", "*"))
IsBulletLine(line) ==
    LET t == LStrip(line) IN t # <<>> /\ t[1] \in {"-", "*"}

\* The branches of the loop body once a pending blank line is out.
BodyBranch(st, line, width) ==
    IF line = Triple
    THEN IF ~st.in_triples
         THEN LET f == FlushPara(st, FALSE, width) IN
              [Emit(f, <<"/">>) EXCEPT !.in_triples = TRUE]
         ELSE [Emit(st, <<"\\">>) EXCEPT !.newline_on_next = TRUE,
                                        !.in_triples = FALSE]
    ELSE IF st.in_triples
    THEN Emit(st, <<"|", " ">> \o line)
    ELSE IF Strip(line) = <<>>
    THEN IF st.in_list
         THEN [st EXCEPT !.in_list = FALSE, !.newline_on_next = TRUE]
         ELSE FlushPara(st, FALSE, width)
    ELSE IF IsUrlLine(line)
    THEN Emit(st, line)
    ELSE IF IsHeadingLine(line)
    THEN Emit(Emit(Emit(FlushPara(st, FALSE, width), line),
                   Dashes(Len(line))), <<>>)
    ELSE IF IsBulletLine(line)
    THEN [Emit(st, line) EXCEPT !.in_list = TRUE]
    ELSE IF st.in_list
    THEN Emit(st, line)
    ELSE [st EXCEPT !.para_lines = Append(@, JoinWith(Words(line), <<" ">>))]

\* One turn of the loop over input.splitlines(); an exception ends it.
BodyLine(st, line, width) ==
    IF st.raised THEN st
    ELSE BodyBranch(IF st.newline_on_next
                    THEN [Emit(st, <<>>) EXCEPT !.newline_on_next = FALSE]
                    ELSE st,
                    line, width)

\* The loop over the lines from line k on.
RECURSIVE BodyLoop(_, _, _, _)
BodyLoop(st, lines, k, width) ==
    IF k > Len(lines) THEN st
    ELSE BodyLoop(BodyLine(st, lines[k], width), lines, k + 1, width)

\* What format_body leaves: the list of lines, or the ValueError.
BodyLines(lines) == [kind |-> "lines", lines |-> lines]
BodyRaised == [kind |-> "ValueError", lines |-> <<>>]

\* format_body(input, col)
FormatBody(text, width) ==
    IF width < 0 THEN BodyLines(SplitLines(text))
    ELSE LET st == BodyLoop(BodyState(<<>>, <<>>, FALSE, FALSE, FALSE, FALSE),
                            SplitLines(text), 1, width)
             fin == IF st.raised THEN st ELSE FlushPara(st, TRUE, width)
         IN  IF fin.raised THEN BodyRaised ELSE BodyLines(fin.out_lines)

(***************************************************************************)
(* format_body on its own: one body, one wrap column.                      *)
(***************************************************************************)
\* Most lines of a body.
MaxLines == 4

\* Prose, indented prose with a word that a narrow column breaks, the two
\* kinds of list item, the two kinds of URL line, a heading, the line of
\* a verbatim block and the empty line.
LinePool ==
    {<<"a">>,
     <<" ", " ", "a", "a", " ", " ", "a">>,
     <<"-", " ", "a">>,
     <<" ", "*", " ", "a">>,
     <<"h", "t", "t", "p", ":", "/", "/", "a">>,
     <<"h", "t", "t", "p", "s", ":", "/", "/", "a", " ", "a">>,
     <<"#", " ", "a">>,
     Triple,
     <<>>}

\* The bodies: up to MaxLines lines with "\n" between them, so that a body
\* whose last line is empty is one that ends with "\n".
Bodies == {JoinWith(ls, <<"\n">>) : ls \in SeqsUpTo(LinePool, MaxLines)}

\* No wrapping, the column textwrap turns down, a column narrower than a
\* word and one that holds two words.
BodyCols == {0 - 1, 0, 2, 4}

InitBody ==
    /\ pc = "format_body"
    /\ input \in Bodies
    /\ col \in BodyCols
    /\ out_lines = None
    /\ shown = None /\ wrap_col = 0 /\ rec = None
    /\ ParseIdle
    /\ CollectIdle
    /\ TimeIdle
    /\ EditIdle
    /\ now = DateTime(2017, 1, 2, 0, 0, 0)

\* format_body(input, col)
FormatBodyStep ==
    /\ pc = "format_body"
    /\ out_lines' = Some(FormatBody(input, col))
    /\ pc' = "formatted"
    /\ UNCHANGED <<input, col, formatVars, parseVars, collectVars, timeVars,
                   now, editVars>>

NextBody == FormatBodyStep

SpecBody == InitBody /\ [][NextBody]_vars

(***************************************************************************)
(* Properties of format_body (checked under SpecBody)                      *)
(***************************************************************************)
\* format_body is over, and returned lines.
Formatted == out_lines # None
Produced == out_lines # None /\ out_lines[1].kind = "lines"

InLines == SplitLines(input)
OutLines == out_lines[1].lines

Blank(line) == \A i \in 1..Len(line) : IsSpace(line[i])

\* The line k of the body lies outside the verbatim blocks and is not a
\* line that opens or closes one.
Outside(k) ==
    /\ InLines[k] # Triple
    /\ Cardinality({i \in 1..(k - 1) : InLines[i] = Triple}) % 2 = 0

\* The line k lies inside a verbatim block.
Inside(k) ==
    /\ InLines[k] # Triple
    /\ Cardinality({i \in 1..(k - 1) : InLines[i] = Triple}) % 2 = 1

\* The lines of the body whose index is in ks, in the order of the body.
RECURSIVE PickLines(_, _)
PickLines(ks, k) ==
    IF k > Len(InLines) THEN <<>>
    ELSE (IF k \in ks THEN <<InLines[k]>> ELSE <<>>) \o PickLines(ks, k + 1)

\* a is b with some lines left out.
RECURSIVE IsSubseq(_, _)
IsSubseq(a, b) ==
    IF a = <<>> THEN TRUE
    ELSE IF b = <<>> THEN FALSE
    ELSE IF Head(a) = Head(b) THEN IsSubseq(Tail(a), Tail(b))
    ELSE IsSubseq(a, Tail(b))

\* The first character of the line that is not white space is "-" or "*".
ItemLine(line) ==
    \E i \in 1..Len(line) :
        /\ line[i] \in {"-", "*"}
        /\ \A m \in 1..(i - 1) : IsSpace(line[m])

\* The list items outside the verbatim blocks.
Items == {k \in 1..Len(InLines) : Outside(k) /\ ItemLine(InLines[k])}

\* The lines of the lists: an item, and the lines outside the verbatim
\* blocks that follow an item with no blank line since.
ListLines ==
    {k \in 1..Len(InLines) :
        /\ Outside(k)
        /\ \E i \in Items :
              i <= k /\ \A m \in i..k : ~Blank(InLines[m])}

\* C15: for every non-negative wrap column each list-item line, and each
\* sub-item or continuation line that follows it before the next blank
\* line, is in the output byte-identical, never wrapped, and these lines
\* stand in the output in the order of the input.
C15_ListsVerbatim ==
    (Formatted /\ col >= 0) =>
        /\ Produced
        /\ IsSubseq(PickLines(ListLines, 1), OutLines)

\* What holds of the code: the list items themselves are kept, in order,
\* whenever lines are returned.
C15_ItemsKept ==
    (Produced /\ col >= 0) => IsSubseq(PickLines(Items, 1), OutLines)

\* A heading between a list item and its continuation line: the
\* continuation line went into a wrapped paragraph and is not in the output.
C15_Witness ==
    /\ Produced
    /\ col = 4
    /\ InLines = << <<"-", " ", "a">>, <<"#", " ", "a">>,
                    <<" ", " ", "a", "a", " ", " ", "a">> >>
    /\ \A i \in 1..Len(OutLines) : OutLines[i] # InLines[3]

\* The line starts with "http://" or "https://".
UrlLine(line) ==
    \/ Len(line) >= 7 /\ SubSeq(line, 1, 7) = <<"h", "t", "t", "p", ":", "/", "/">>
    \/ Len(line) >= 8
       /\ SubSeq(line, 1, 8) = <<"h", "t", "t", "p", "s", ":", "/", "/">>

\* The URL lines outside the verbatim blocks.
Urls == {k \in 1..Len(InLines) : Outside(k) /\ UrlLine(InLines[k])}

\* C16: outside a verbatim block every line that starts with "http://" or
\* "https://" is passed to the output byte-identical and unwrapped,
\* whatever the wrap column and however long the line; a body made of
\* such lines only is returned unchanged, no line added.
C16_UrlsVerbatim ==
    (Formatted /\ Urls # {}) =>
        /\ Produced
        /\ IsSubseq(PickLines(Urls, 1), OutLines)
        /\ (\A k \in 1..Len(InLines) : UrlLine(InLines[k]))
              => OutLines = InLines

\* What holds of the code: the same of every call that returns lines.
C16_WhenProduced ==
    Produced =>
        /\ IsSubseq(PickLines(Urls, 1), OutLines)
        /\ (\A k \in 1..Len(InLines) : UrlLine(InLines[k]))
              => OutLines = InLines

\* A body of a prose line and a URL line at column 0: textwrap.wrap raised
\* and no line was returned.
C16_Witness ==
    /\ Formatted
    /\ ~Produced
    /\ col = 0
    /\ InLines = << <<"a">>, <<"h", "t", "t", "p", ":", "/", "/", "a">> >>

\* The lines i and j open and close a verbatim block.
IsBlock(i, j) ==
    /\ i < j
    /\ InLines[i] = Triple /\ InLines[j] = Triple
    /\ Cardinality({m \in 1..(i - 1) : InLines[m] = Triple}) % 2 = 0
    /\ \A m \in (i + 1)..(j - 1) : InLines[m] # Triple

\* The output holds, from line p on, the block of the lines i..j: "/",
\* the lines between with "| " before each, and a backslash.
BlockAt(p, i, j) ==
    /\ p + (j - i) <= Len(OutLines)
    /\ OutLines[p] = <<"/">>
    /\ \A m \in 1..(j - i - 1) : OutLines[p + m] = <<"|", " ">> \o InLines[i + m]
    /\ OutLines[p + (j - i)] = <<"\\">>

\* After the close marker at line q of the output there is nothing, or one
\* blank line and then a line that is not blank.
OneBlankAfter(q, j) ==
    IF \A m \in (j + 1)..Len(InLines) : Blank(InLines[m])
    THEN TRUE
    ELSE /\ q + 2 <= Len(OutLines)
         /\ OutLines[q + 1] = <<>>
         /\ ~Blank(OutLines[q + 2])

\* C17: for a verbatim block delimited by a pair of "```" lines the output
\* holds one open marker "/", every line between with "| " before it,
\* byte-identical and not taken for a blank line, heading, list item, URL
\* or prose, then one close marker, in input order and independently of
\* the wrap column; the first content line after the block is preceded by
\* exactly one blank line.
C17_FencedBlock ==
    Formatted =>
        \A i, j \in 1..Len(InLines) :
            IsBlock(i, j) =>
                /\ Produced
                /\ \E p \in 1..Len(OutLines) :
                      BlockAt(p, i, j) /\ OneBlankAfter(p + (j - i), j)

\* What holds of the code: the same for the columns above 0.
C17_PositiveColumns ==
    (Formatted /\ col > 0) =>
        \A i, j \in 1..Len(InLines) :
            IsBlock(i, j) =>
                /\ Produced
                /\ \E p \in 1..Len(OutLines) :
                      BlockAt(p, i, j) /\ OneBlankAfter(p + (j - i), j)

\* A prose line before a block at column 0: textwrap.wrap raised when the
\* block opened.
C17_Witness ==
    /\ Formatted
    /\ ~Produced
    /\ col = 0
    /\ InLines = << <<"a">>, Triple, <<"#", " ", "a">>, Triple >>

\* The last line of the body is not blank.
EndsWithContent == InLines # <<>> /\ ~Blank(InLines[Len(InLines)])

\* C18: no trailing blank line: for every body whose last line is not
\* blank and every non-negative column the last line of the output is not
\* blank, whichever construct the body ends with (paragraph, list item,
\* closing fence, heading, URL line).
C18_NoTrailingBlank ==
    (Formatted /\ col >= 0 /\ EndsWithContent) =>
        /\ Produced
        /\ OutLines # <<>>
        /\ ~Blank(OutLines[Len(OutLines)])

\* What holds of the code: the same for the columns above 0 and the
\* bodies that do not end with a heading outside a verbatim block.
C18_UnlessHeadingLast ==
    (Formatted /\ col > 0 /\ EndsWithContent) =>
        \/ Outside(Len(InLines)) /\ IsHeadingLine(InLines[Len(InLines)])
        \/ Produced /\ OutLines # <<>> /\ ~Blank(OutLines[Len(OutLines)])

\* The body is the heading "# a" alone: the output ends with the blank
\* line that follows the rule under the heading.
C18_Witness ==
    /\ Produced
    /\ col = 4
    /\ InLines = << <<"#", " ", "a">> >>
    /\ OutLines = << <<"#", " ", "a">>, <<"-", "-", "-">>, <<>> >>

\* A line of prose: not blank, not the line of a verbatim block, and it
\* starts with none of a URL, a list marker and "#".
ProseLine(line) ==
    /\ ~Blank(line)
    /\ line # Triple
    /\ ~UrlLine(line)
    /\ ~ItemLine(line)
    /\ LStrip(line)[1] # "#"

\* The body is prose paragraphs with blank lines between them.
ProseBody ==
    /\ InLines # <<>>
    /\ \A k \in 1..Len(InLines) : Blank(InLines[k]) \/ ProseLine(InLines[k])
    /\ ~Blank(InLines[1])
    /\ ~Blank(InLines[Len(InLines)])

\* The number of paragraphs: the lines that start one.
Paragraphs ==
    Cardinality({k \in 1..Len(InLines) :
                    ~Blank(InLines[k]) /\ (k = 1 \/ Blank(InLines[k - 1]))})

BlankCount == Cardinality({p \in 1..Len(OutLines) : Blank(OutLines[p])})

\* The paragraphs are apart by one blank line each, and no blank line
\* comes first or last.
SeparatedByOne ==
    /\ BlankCount = Paragraphs - 1
    /\ \A p \in 1..(Len(OutLines) - 1) :
          ~(Blank(OutLines[p]) /\ Blank(OutLines[p + 1]))
    /\ ~Blank(OutLines[1])
    /\ ~Blank(OutLines[Len(OutLines)])

\* C19: for a body of n prose paragraphs separated by blank lines the
\* output holds exactly n - 1 blank lines for every wrap column, one
\* between two wrapped paragraphs, none before the first or after the
\* last; several blank lines in a row give one separator.
C19_ParagraphSeparators ==
    (Formatted /\ ProseBody) => (Produced /\ SeparatedByOne)

\* What holds of the code: the same for the columns above 0.
C19_PositiveColumns ==
    (Formatted /\ ProseBody /\ col > 0) => (Produced /\ SeparatedByOne)

\* Two paragraphs at column 0: textwrap.wrap raised at the blank line.
C19_Witness ==
    /\ Formatted
    /\ ~Produced
    /\ col = 0
    /\ InLines = << <<"a">>, <<>>, <<"a">> >>

(***************************************************************************)
(* The order of the body's content.                                       *)
(***************************************************************************)
\* The body holds no verbatim block and no heading.
PlainBody ==
    \A k \in 1..Len(InLines) :
        /\ InLines[k] # Triple
        /\ Blank(InLines[k]) \/ LStrip(InLines[k])[1] # "#"

\* A line that is passed through as it is: a line of a list, or a URL line.
PassedThrough(k) == k \in ListLines \/ k \in Urls

\* A line of paragraph text.
ParagraphLine(k) == ~Blank(InLines[k]) /\ ~PassedThrough(k)

\* The lines of buf wrapped as one paragraph.
WrappedPara(buf, width) ==
    IF buf = <<>> THEN <<>> ELSE TextWrap(JoinWith(buf, <<"\n">>), width)

\* The body's content in the order of the source, from line k on: each run
\* of paragraph lines wrapped on its own where it stands, each list line
\* and URL line as it is; buf is the run of paragraph lines before line k.
RECURSIVE SourceOrder(_, _, _)
SourceOrder(k, buf, width) ==
    IF k > Len(InLines) THEN WrappedPara(buf, width)
    ELSE IF Blank(InLines[k])
    THEN WrappedPara(buf, width) \o SourceOrder(k + 1, <<>>, width)
    ELSE IF PassedThrough(k)
    THEN WrappedPara(buf, width) \o <<InLines[k]>>
             \o SourceOrder(k + 1, <<>>, width)
    ELSE SourceOrder(k + 1,
                     Append(buf, JoinWith(Words(InLines[k]), <<" ">>)),
                     width)

\* The lines that are not blank, in their order.
RECURSIVE NonBlank(_)
NonBlank(lines) ==
    IF lines = <<>> THEN <<>>
    ELSE (IF Blank(Head(lines)) THEN <<>> ELSE <<Head(lines)>>)
             \o NonBlank(Tail(lines))

\* Paragraph text precedes a list line or a URL line.
ParagraphBefore ==
    \E k \in 1..Len(InLines) :
        PassedThrough(k) /\ \E i \in 1..(k - 1) : ParagraphLine(i)

\* A list line or a URL line comes straight after a line of paragraph text.
ParagraphThenPassed ==
    \E k \in 2..Len(InLines) : PassedThrough(k) /\ ParagraphLine(k - 1)

\* C22: for every non-negative column the content of the body is emitted
\* in the order of the source: paragraph text that precedes a list item, a
\* list continuation line or a URL line is wrapped and stands before that
\* line in the output, and is not merged into one paragraph with the
\* paragraph lines that follow the line.
C22_SourceOrder ==
    (Formatted /\ col >= 0 /\ PlainBody /\ ParagraphBefore) =>
        /\ Produced
        /\ NonBlank(OutLines) = SourceOrder(1, <<>>, col)

\* What does hold: at the columns above 0 the order of the source is kept
\* by every body in which no list line and no URL line comes straight
\* after a line of paragraph text.
C22_WhenParagraphEnded ==
    (Formatted /\ col > 0 /\ PlainBody /\ ~ParagraphThenPassed) =>
        /\ Produced
        /\ NonBlank(OutLines) = SourceOrder(1, <<>>, col)

\* A paragraph line, a list item, a blank line and a paragraph line at
\* column 4: the item comes out first, and the two paragraph lines, which
\* stand on either side of it, come out as one wrapped line.
C22_Witness ==
    /\ Produced
    /\ col = 4
    /\ InLines = << <<"a">>, <<"-", " ", "a">>, <<>>, <<"a">> >>
    /\ OutLines = << <<"-", " ", "a">>, <<>>, <<"a", " ", "a">> >>

(***************************************************************************)
(* Entry.format                                                            *)
(* Texts are sequences of atoms; an atom is one character, but for the     *)
(* time stamp of a file name and the two flag words, which are runs.       *)
(***************************************************************************)
\* len() of an atom
AtomWidth(a) ==
    CASE a \in Stamps -> 15
      [] a = "immortal" -> 8
      [] a = "nowrap" -> 6
      [] OTHER -> 1

\* len(s)
RECURSIVE Width(_)
Width(s) == IF s = <<>> THEN 0 ELSE AtomWidth(Head(s)) + Width(Tail(s))

\* ch * n
RECURSIVE Repeat(_, _)
Repeat(ch, n) == IF n <= 0 THEN <<>> ELSE <<ch>> \o Repeat(ch, n - 1)

\* str.center(width): of an odd margin the larger half goes left when the
\* width is odd, right when it is even.
Center(s, width) ==
    LET marg == width - Width(s)
        left == (marg \div 2) + (IF marg % 2 = 1 /\ width % 2 = 1 THEN 1 ELSE 0)
    IN  IF marg <= 0 THEN s
        ELSE Repeat(" ", left) \o s \o Repeat(" ", marg - left)

\* The decimal digit d as a character.
DigitChar(d) ==
    CASE d = 0 -> "0" [] d = 1 -> "1" [] d = 2 -> "2" [] d = 3 -> "3"
      [] d = 4 -> "4" [] d = 5 -> "5" [] d = 6 -> "6" [] d = 7 -> "7"
      [] d = 8 -> "8" [] d = 9 -> "9"

\* "%02d" % n and "%04d" % n
TwoDigits(n) == <<DigitChar(n \div 10), DigitChar(n % 10)>>
FourDigits(n) == TwoDigits(n \div 100) \o TwoDigits(n % 100)

\* The date of the instants that the file stamps give: year, month, day.
DateOf(t) ==
    CASE t.day = DateTime(1, 1, 1, 0, 0, 0).day -> <<1, 1, 1>>
      [] t.day = DateTime(2016, 1, 1, 0, 0, 0).day -> <<2016, 1, 1>>
      [] t.day = DateTime(2017, 1, 1, 0, 0, 0).day -> <<2017, 1, 1>>
      [] t.day = DateTime(2017, 1, 3, 0, 0, 0).day -> <<2017, 1, 3>>
      [] t.day = DateTime(9999, 12, 31, 0, 0, 0).day -> <<9999, 12, 31>>

\* str(self.time): "YYYY-MM-DD HH:MM:SS"
TimeStr(t) ==
    FourDigits(DateOf(t)[1]) \o <<"-">> \o TwoDigits(DateOf(t)[2])
        \o <<"-">> \o TwoDigits(DateOf(t)[3]) \o <<" ">>
        \o TwoDigits(t.sec \div 3600) \o <<":">>
        \o TwoDigits((t.sec % 3600) \div 60) \o <<":">>
        \o TwoDigits(t.sec % 60)

\* abs(wrap_col)
Abs(n) == IF n < 0 THEN 0 - n ELSE n

\* The orders in which the set of tags can be iterated.
Orderings(S) ==
    {f \in [1..Cardinality(S) -> S] :
        \A i, k \in 1..Cardinality(S) : i # k => f[i] # f[k]}

\* ["@%s" % x for x in self.tags], the tags coming in the order tag_order
AttedTags(tag_order) == [i \in 1..Len(tag_order) |-> <<"@">> \o tag_order[i]]

\* The three or four header lines, joined with "\n".
Headers(e, width, tag_order) ==
    LET time_str == TimeStr(e.time)
        pad == Repeat(" ", width - Width(time_str) - Width(e.path))
    IN  JoinWith(<<Repeat("=", width),
                   time_str \o pad \o e.path,
                   Center(e.title, width)>>
                 \o (IF e.tags # {}
                     THEN <<Center(JoinWith(AttedTags(tag_order), <<" ">>),
                                   width)>>
                     ELSE <<>>),
                 <<"\n">>)

\* rec += line + "\n" for each line
RECURSIVE EndLines(_)
EndLines(lines) ==
    IF lines = <<>> THEN <<>>
    ELSE Head(lines) \o <<"\n">> \o EndLines(Tail(lines))

\* What Entry.format leaves: the text, or the ValueError of format_body.
FormatText(text) == [kind |-> "str", text |-> text]
FormatRaised == [kind |-> "ValueError", text |-> <<>>]

\* Entry.format(wrap_col) with the default colours, which are all "".
Format(e, width, tag_order) ==
    LET headers == Headers(e, Abs(width), tag_order) IN
    IF e.body = None \/ e.body = Some(<<>>)
    THEN FormatText(headers)
    ELSE LET body == FormatBody(e.body[1], IF ~e.wrap THEN 0 - 1 ELSE width)
         IN  IF body.kind # "lines" THEN FormatRaised
             ELSE FormatText(headers \o <<"\n", "\n">> \o EndLines(body.lines))

(***************************************************************************)
(* Entry.format on its own: one entry, one wrap column.                    *)
(***************************************************************************)
ShownTitles == {<<"a">>, <<"A", " ", "a">>}

\* No attribute line, tags, the nowrap flag, and both.
ShownAttrs ==
    {<<>>,
     <<"@", "a", "\n">>,
     <<"@", "b", " ", "@", "a", "\n">>,
     <<"nowrap", "\n">>,
     <<"nowrap", " ", "@", "a", "\n">>}

\* No body, an empty one, prose that a narrow column wraps, a list with
\* prose, a heading and a URL line.
ShownBodies ==
    {<<>>,
     <<"\n">>,
     <<"\n", " ", " ", "a", "a", " ", " ", "a", "\n">>,
     <<"\n", "-", " ", "a", "\n", "\n", "a", "\n", "a", "\n">>,
     <<"\n", "#", " ", "a", "\n">>,
     <<"\n", "h", "t", "t", "p", ":", "/", "/", "a", "\n">>}

\* The entries shown: what Entry(path) makes of a well-formed file.
ShownEntries ==
    {Parse(<<"20170101_120000", "-", "a">>, t \o <<"\n">> \o a \o b, FALSE) :
        t \in ShownTitles, a \in ShownAttrs, b \in ShownBodies}

\* Wrapping off with a wide header, the column textwrap turns down, a
\* column narrower than the meta-data, and a wide one.
WrapCols == {0 - 40, 0, 4, 40}

InitFormat ==
    /\ pc = "format"
    /\ shown \in ShownEntries
    /\ wrap_col \in WrapCols
    /\ rec = None
    /\ input = <<>> /\ col = 0 /\ out_lines = None
    /\ ParseIdle
    /\ CollectIdle
    /\ TimeIdle
    /\ EditIdle
    /\ now = DateTime(2017, 1, 2, 0, 0, 0)

\* Entry.format(wrap_col); the set of tags is iterated in some order.
FormatStep ==
    /\ pc = "format"
    /\ \E tag_order \in Orderings(shown.tags) :
          rec' = Some(Format(shown, wrap_col, tag_order))
    /\ pc' = "shown"
    /\ UNCHANGED <<shown, wrap_col, bodyVars, parseVars, collectVars,
                   timeVars, now, editVars>>

NextFormat == FormatStep

SpecFormat == InitFormat /\ [][NextFormat]_vars

(***************************************************************************)
(* The layout of a shown entry.                                            *)
(***************************************************************************)
Shown == pc = "shown"
ShownText == rec # None /\ rec[1].kind = "str"

RecLines == SplitLines(rec[1].text)
HeaderWidth == Abs(wrap_col)

EndsWith(s, suffix) ==
    Len(s) >= Len(suffix)
        /\ SubSeq(s, Len(s) - Len(suffix) + 1, Len(s)) = suffix

HasTags == shown.tags # {}
HasBody == shown.body # None /\ shown.body # Some(<<>>)

\* The number of header lines: rule, meta-data, title and the tag line.
HeaderLines == IF HasTags THEN 4 ELSE 3

\* The column format_body is given: negative under the nowrap flag.
BodyCol == IF shown.wrap THEN wrap_col ELSE 0 - 1

RuleLine == RecLines[1] = Repeat("=", HeaderWidth)

MetaLine ==
    /\ Width(RecLines[2]) = HeaderWidth
    /\ StartsWith(RecLines[2], TimeStr(shown.time))
    /\ EndsWith(RecLines[2], shown.path)

TitleLine == RecLines[3] = Center(shown.title, HeaderWidth)

TagLine ==
    HasTags =>
        \E tag_order \in Orderings(shown.tags) :
            RecLines[4] =
                Center(JoinWith(AttedTags(tag_order), <<" ">>), HeaderWidth)

BodyPart ==
    IF HasBody
    THEN /\ FormatBody(shown.body[1], BodyCol).kind = "lines"
         /\ Len(RecLines) > HeaderLines
         /\ RecLines[HeaderLines + 1] = <<>>
         /\ SubSeq(RecLines, HeaderLines + 2, Len(RecLines))
                = FormatBody(shown.body[1], BodyCol).lines
    ELSE Len(RecLines) = HeaderLines

Layout ==
    /\ ShownText
    /\ Len(RecLines) >= HeaderLines
    /\ RuleLine
    /\ MetaLine
    /\ TitleLine
    /\ TagLine
    /\ BodyPart

\* C20: every shown entry is, in this order, a rule of |wrap_col| "=", a
\* meta-data line of exactly that width that begins with the time and ends
\* with the identifier, the title centred in that width, a centred line of
\* the "@"-prefixed tags only when there are tags and, only when there is a
\* body, one blank line and then the lines format_body makes of the body,
\* at a negative column under the nowrap flag.
C20_HeaderAndBody == Shown => Layout

\* The meta-data line has room for the time and the identifier.
RoomForMeta ==
    HeaderWidth >= Width(TimeStr(shown.time)) + Width(shown.path)

\* What does hold: the layout of C20 at every column other than 0 whose
\* width has room for the time and the identifier.
C20_WideColumns == Shown /\ RoomForMeta /\ wrap_col # 0 => Layout

\* An entry with tags and a body is shown at a column narrower than its
\* meta-data: the meta-data line is wider than the rule above it.
C20_Witness ==
    /\ Shown
    /\ ShownText
    /\ HasTags
    /\ HasBody
    /\ ~RoomForMeta
    /\ RuleLine
    /\ Width(RecLines[2]) > HeaderWidth

(***************************************************************************)
(* Journal._invoke_editor: the edit and retry loop                         *)
(* A directory is a function from the names of its files to their          *)
(* contents.                                                               *)
(***************************************************************************)
\* Most runs of the editor in one call of _invoke_editor.
MaxCycles == 3

\* The directory dir with the file name holding text (made or overwritten).
PutFile(dir, name, text) ==
    [n \in (DOMAIN dir) \cup {name} |-> IF n = name THEN text ELSE dir[n]]

\* The directory dir without the file name.
RemoveFile(dir, name) == [n \in (DOMAIN dir) \ {name} |-> dir[n]]

\* now.strftime(TIME_FORMAT), for the instants the file stamps give
StrfTimeFormat(t) == CHOOSE st \in Stamps : StampTime(st) = t

\* _new_entry_create: the path of the empty file mkstemp makes, whose name
\* is the time stamp, "-" and the characters mkstemp draws.
NewEntryCreate(t, suffix) == <<StrfTimeFormat(t), "-">> \o suffix

\* The locals of the loop over paths: the two directories, problem_paths,
\* the lines printed, the paths moved and the exception that ended it.
CheckState(tmp, journal, problems, lines, moved, err) ==
    [tmp |-> tmp, journal |-> journal, problems |-> problems,
     lines |-> lines, moved |-> moved, raised |-> err]

\* _move_entry_in(path, existing) on the state st: the assert, then
\* shutil.move, which overwrites a file of the same name.
MoveEntryIn(st, p, exist) ==
    IF ~exist /\ p \in DOMAIN st.journal
    THEN [st EXCEPT !.raised = Some("AssertionError")]
    ELSE [st EXCEPT !.journal = PutFile(@, p, st.tmp[p]),
                    !.tmp = RemoveFile(@, p),
                    !.moved = Append(@, p),
                    !.lines = Append(@, [path |-> p, ok |-> TRUE])]

\* The entry failed to parse: except ParseError.
IsParseError(e) == e.kind = "ParseError"

\* The turn with no check: every path is moved in.
CheckPathMovesAll(st, p, exist) ==
    IF st.raised # None THEN st ELSE MoveEntryIn(st, p, exist)

\* One turn of the loop over paths: Entry(path), then the except branch or
\* the else branch; any other exception leaves the loop.
CheckPath(st, p, exist) ==
    LET e == Parse(p, st.tmp[p], FALSE) IN
    IF st.raised # None THEN st
    ELSE IF IsParseError(e)
    THEN [st EXCEPT !.problems = Append(@, [path |-> p, reason |-> e.msg]),
                    !.lines = Append(@, [path |-> p, ok |-> FALSE])]
    ELSE IF e.kind = "Entry" THEN MoveEntryIn(st, p, exist)
    ELSE [st EXCEPT !.raised = Some(e.kind)]

\* The loop over paths from path k on.
RECURSIVE CheckLoop(_, _, _, _)
CheckLoop(st, ps, k, exist) ==
    IF k > Len(ps) THEN st
    ELSE CheckLoop(CheckPath(st, ps[k], exist), ps, k + 1, exist)

\* The retry run on every path again.
RetryAll(ps, problems) == ps

\* list(problem_paths.keys())
RetryPaths(ps, problems) == [i \in 1..Len(problems) |-> problems[i].path]

\* What the user can leave in a file: nothing, a title alone, a title
\* with an unknown attribute, and a title with a tag and a body.
EditedTexts ==
    {<<>>,
     <<"a", "\n">>,
     <<"a", "\n", "b", "\n">>,
     <<"A", "\n", "@", "a", "\n", "\n", "a", "\n">>}

\* The names of the entries a journal holds.
JournalNames ==
    {<<"20160101_000000", "-", "a">>, <<"20170101_120000", "-", "b">>}

\* The journals: every file of the journal is an entry that parses.
Journals ==
    UNION {[names -> {t \in EditedTexts :
                        \A n \in names : Parse(n, t, FALSE).kind = "Entry"}] :
              names \in SUBSET JournalNames}

\* The lists of entries _edit_existing_entries is called with.
EntryLists(journal) ==
    {ps \in SeqsUpTo(DOMAIN journal, Cardinality(DOMAIN journal)) :
        \A i, k \in 1..Len(ps) : i # k => ps[i] # ps[k]}

\* The characters mkstemp draws for the name of a new file; the journals
\* hold no file of the present second.
TmpSuffixes == {<<"a">>, <<"c">>}

InitEdit ==
    /\ pc = "start"
    /\ journal_files \in Journals
    /\ tmp_files = <<>>
    /\ existing = FALSE
    /\ paths = <<>>
    /\ editor_args = <<>>
    /\ checked = <<>>
    /\ problem_paths = <<>>
    /\ moves = <<>>
    /\ cycles = 0
    /\ ParseIdle
    /\ CollectIdle
    /\ TimeIdle
    /\ RenderIdle
    /\ now = DateTime(2017, 1, 3, 12, 0, 0)

\* new_entry, up to the loop of _invoke_editor
NewEntry ==
    /\ pc = "start"
    /\ \E suffix \in TmpSuffixes :
          /\ paths' = <<NewEntryCreate(now, suffix)>>
          /\ tmp_files' = PutFile(tmp_files, NewEntryCreate(now, suffix), <<>>)
    /\ existing' = FALSE
    /\ pc' = "editor"
    /\ UNCHANGED <<journal_files, editor_args, checked, problem_paths, moves,
                   cycles, parseVars, collectVars, timeVars, renderVars, now>>

\* The copies of the entries ps in the temporary directory, from entry k on.
RECURSIVE CopyFiles(_, _, _, _)
CopyFiles(tmp, journal, ps, k) ==
    IF k > Len(ps) THEN tmp
    ELSE CopyFiles(PutFile(tmp, ps[k], journal[ps[k]]), journal, ps, k + 1)

\* _edit_existing_entries(entries), up to the loop of _invoke_editor
EditExistingEntries ==
    /\ pc = "start"
    /\ \E ps \in EntryLists(journal_files) :
          IF Len(ps) = 0
          THEN /\ pc' = "done"
               /\ UNCHANGED <<paths, tmp_files, existing>>
          ELSE /\ paths' = ps
               /\ tmp_files' = CopyFiles(tmp_files, journal_files, ps, 1)
               /\ existing' = TRUE
               /\ pc' = "editor"
    /\ UNCHANGED <<journal_files, editor_args, checked, problem_paths, moves,
                   cycles, parseVars, collectVars, timeVars, renderVars, now>>

\* subprocess.check_call([self.editor] + paths): the user leaves some text
\* in each file, and the editor exits with status 0 or with another
\* status, for which check_call raises CalledProcessError.
RunEditor ==
    /\ pc = "editor"
    /\ \E texts \in [Range(paths) -> EditedTexts], status \in {0, 1} :
          /\ tmp_files' =
                [n \in (DOMAIN tmp_files) \cup Range(paths) |->
                    IF n \in Range(paths) THEN texts[n] ELSE tmp_files[n]]
          /\ pc' = IF status = 0 THEN "check" ELSE "CalledProcessError"
    /\ editor_args' = paths
    /\ checked' = <<>>
    /\ cycles' = cycles + 1
    /\ UNCHANGED <<journal_files, existing, paths, problem_paths, moves,
                   parseVars, collectVars, timeVars, renderVars, now>>

\* The rest of one turn of the while loop, up to input(): the loop over
\* paths, then the break, or the report and paths = the keys of
\* problem_paths.
CheckPaths ==
    /\ pc = "check"
    /\ LET st == CheckLoop(CheckState(tmp_files, journal_files, <<>>, <<>>,
                                      moves, None),
                           paths, 1, existing)
       IN  /\ tmp_files' = st.tmp
           /\ journal_files' = st.journal
           /\ checked' = st.lines
           /\ moves' = st.moved
           /\ IF st.raised # None
              THEN /\ pc' = st.raised[1]
                   /\ UNCHANGED <<paths, problem_paths>>
              ELSE IF st.problems = <<>>
              THEN /\ pc' = "done"
                   /\ problem_paths' = st.problems
                   /\ UNCHANGED paths
              ELSE /\ pc' = "prompt"
                   /\ problem_paths' = st.problems
                   /\ paths' = RetryPaths(paths, st.problems)
    /\ UNCHANGED <<existing, editor_args, cycles, parseVars, collectVars,
                   timeVars, renderVars, now>>

\* input() returns: the user pressed enter.
PressEnter ==
    /\ pc = "prompt"
    /\ cycles < MaxCycles
    /\ pc' = "editor"
    /\ UNCHANGED <<editVars, parseVars, collectVars, timeVars, renderVars,
                   now>>

\* input() raises KeyboardInterrupt: the paths retained are printed and
\* _invoke_editor returns.
Interrupt ==
    /\ pc = "prompt"
    /\ pc' = "cancelled"
    /\ UNCHANGED <<editVars, parseVars, collectVars, timeVars, renderVars,
                   now>>

NextEdit ==
    \/ NewEntry
    \/ EditExistingEntries
    \/ RunEditor
    \/ CheckPaths
    \/ PressEnter
    \/ Interrupt

SpecEdit == InitEdit /\ [][NextEdit]_vars

(***************************************************************************)
(* Claims about the edit and retry loop (checked under SpecEdit)           *)
(***************************************************************************)
\* The paths Entry(path) was called on since the editor ran, in order.
CheckedPaths == [i \in 1..Len(checked) |-> checked[i].path]

\* Of these lines the paths that failed to parse, in order.
RECURSIVE FailedPaths(_)
FailedPaths(lines) ==
    IF lines = <<>> THEN <<>>
    ELSE (IF Head(lines).ok THEN <<>> ELSE <<Head(lines).path>>)
             \o FailedPaths(Tail(lines))

\* Every file the editor was run on has been parsed since.
AllReparsed == CheckedPaths = editor_args

\* The editor has run and the turn of the loop it started is over, the
\* exception of a failed editor being one way for it to be over.
TurnOver == cycles > 0 /\ pc # "check"

\* The same, the editor having exited with status 0.
TurnOverEditorReturned == TurnOver /\ pc # "CalledProcessError"

\* Once the files are parsed the loop ends if and only if none failed, and
\* is at the prompt otherwise.
EndsWhenNoneFails ==
    pc = "check" /\ pc' # "check" =>
        /\ (pc' = "done") = (FailedPaths(checked') = <<>>)
        /\ (pc' = "prompt") = (FailedPaths(checked') # <<>>)

\* At the prompt each failed file has been reported with the reason.
ErrorsPresented ==
    pc = "prompt" =>
        /\ [i \in 1..Len(problem_paths) |-> problem_paths[i].path]
              = FailedPaths(checked)
        /\ \A i \in 1..Len(problem_paths) :
              problem_paths[i].reason =
                  Parse(problem_paths[i].path,
                        tmp_files[problem_paths[i].path], FALSE).msg

\* The prompt is left for the editor or by cancellation, and an editor run
\* that follows a turn is on exactly the files that failed in it.
RetriesTheFailed ==
    /\ pc = "prompt" /\ pc' # "prompt" => pc' \in {"editor", "cancelled"}
    /\ pc = "editor" /\ pc' # "editor" /\ cycles > 0 =>
          editor_args' = FailedPaths(checked)

\* The loop is cancelled from the prompt only.
CancelledAtPrompt == pc' = "cancelled" /\ pc # "cancelled" => pc = "prompt"

\* After cancellation the files that failed are still in the temporary
\* directory, with the text that failed, and were not moved.
FailedLeftInPlace ==
    pc = "cancelled" =>
        /\ paths = FailedPaths(checked)
        /\ paths # <<>>
        /\ \A p \in Range(paths) :
              /\ p \in DOMAIN tmp_files
              /\ Parse(p, tmp_files[p], FALSE).kind = "ParseError"
              /\ p \notin Range(moves)
              /\ ~existing => p \notin DOMAIN journal_files

\* C21 as stated: every edited file is parsed again after each run of the
\* editor; the loop ends as soon as no file fails, otherwise the errors are
\* presented and, once the user continues, the editor is run on exactly the
\* files that failed; cancellation is seen at the prompt only, and leaves
\* the failing temporary files in place, neither deleted nor moved.
C21_AsStated ==
    /\ [](TurnOver => AllReparsed)
    /\ [](ErrorsPresented /\ FailedLeftInPlace)
    /\ [][EndsWhenNoneFails /\ RetriesTheFailed /\ CancelledAtPrompt]_vars

\* C21, amended: the same for every run of the editor that exits with
\* status 0; after a run that exits with another status no file is parsed
\* and CalledProcessError leaves the loop.
C21_RetryLoop ==
    /\ [](TurnOverEditorReturned => AllReparsed)
    /\ [](pc = "CalledProcessError" => checked = <<>>)
    /\ [](ErrorsPresented /\ FailedLeftInPlace)
    /\ [][EndsWhenNoneFails /\ RetriesTheFailed /\ CancelledAtPrompt]_vars

\* Two entries were edited; one parsed and was moved, the other failed, was
\* edited again alone, failed again, and the user cancelled.
C21_Witness ==
    /\ pc = "cancelled"
    /\ existing
    /\ cycles = 2
    /\ Len(moves) = 1
    /\ Len(editor_args) = 1
    /\ editor_args = paths

\* The paths moved by this step.
NewlyMoved == {moves'[i] : i \in (Len(moves) + 1)..Len(moves')}

\* A file is moved only by the step that has just parsed it, as the text
\* that parsed, and a file that fails stays where it is.
MovedWhenParsed ==
    /\ NewlyMoved # {} => pc = "check"
    /\ \A p \in NewlyMoved :
          /\ p \in DOMAIN tmp_files
          /\ Parse(p, tmp_files[p], FALSE).kind = "Entry"
          /\ p \in DOMAIN journal_files'
          /\ journal_files'[p] = tmp_files[p]
          /\ p \notin DOMAIN tmp_files'
    /\ \A i \in 1..Len(checked') :
          pc = "check" /\ ~checked'[i].ok =>
              /\ checked'[i].path \notin NewlyMoved
              /\ checked'[i].path \in DOMAIN tmp_files'

\* No file is moved twice.
MovedOnce == \A i, k \in 1..Len(moves) : i # k => moves[i] # moves[k]

\* Every file of the journal parses.
JournalParses ==
    \A n \in DOMAIN journal_files :
        Parse(n, journal_files[n], FALSE).kind = "Entry"

\* What was moved in stays in the journal as it was moved, whatever comes.
StaysCommitted ==
    \A p \in Range(moves) :
        /\ p \in DOMAIN journal_files'
        /\ journal_files'[p] = journal_files[p]

\* The journal changes by the moves only, and the edit of existing entries
\* leaves the names of the journal as they were.
NamesKept ==
    /\ DOMAIN journal_files' = (DOMAIN journal_files) \cup NewlyMoved
    /\ existing => DOMAIN journal_files' = DOMAIN journal_files

\* C23: over any number of turns a temporary file is moved into the journal
\* only in the turn in which it has just parsed, and at most once; a file
\* that fails is never moved, so that every file of the journal parses;
\* what was moved stays in the journal also when the user cancels later;
\* and the edit of an existing entry keeps its name in the journal.
C23_MovedOnlyWhenParsed ==
    /\ [](MovedOnce /\ JournalParses)
    /\ [](pc = "cancelled" => \A p \in Range(moves) : p \in DOMAIN journal_files)
    /\ [][MovedWhenParsed /\ StaysCommitted /\ NamesKept]_vars

\* Two existing entries were edited; one was moved in when it parsed, in
\* the first turn or the second, the other failed three times, and the
\* user cancelled: the one is in the journal, the other is not moved.
C23_Witness ==
    /\ pc = "cancelled"
    /\ existing
    /\ cycles = 3
    /\ Len(moves) = 1
    /\ moves[1] \in DOMAIN journal_files
    /\ moves[1] \notin DOMAIN tmp_files
    /\ paths[1] \in DOMAIN tmp_files

====
